---- MODULE Spec2Model ----
(***************************************************************************)
(* World Happiness Meter: the worker's ingestion-and-aggregation pipeline  *)
(* (firehose collection, per-message sentiment classification, batch       *)
(* aggregation) and its time-indexed store (put, hour-prefix range query). *)
(*                                                                         *)
(* Source files:                                                           *)
(*   src/unnamed/part_000          worker/sentiment-meter.ts               *)
(*   src/worker/index.ts           worker entry + sentiment analyzer       *)
(*   src/worker/firehose-client.ts connectToFirehose                       *)
(*                                                                         *)
(* The runtime is Cloudflare Workers, whose local time zone is UTC, so     *)
(* Date.setMinutes / getHours / setHours act on UTC fields.                *)
(***************************************************************************)
EXTENDS Integers, Sequences, FiniteSets, TLC

(***************************************************************************)
(* Bounds of the model.                                                    *)
(***************************************************************************)
\* Instants are counted in ticks; an hour has TicksPerHour of them.
TicksPerHour == 2
\* Instants range over 0..MaxTime; instant 0 is 2025-01-03T22:00:00.000Z.
MaxTime == 5
\* Most keys the store holds.
MaxKeys == 3
\* Most keys the store returns in one page of a list request.
MaxPage == 2
\* Most stream events (posts and transport errors) of one run.
MaxEvents == 4
\* The clock of a pipeline run ranges over the instants 0..MaxClock.
MaxClock == 1

(***************************************************************************)
(* Program constants, scaled down to the model.                            *)
(***************************************************************************)
\* The eventLimit updateMeters passes: 2000 at part_000:25.
EventLimit == 3
\* The number of concepts kept: 200 in slice(0, 200) at part_000:97.
TopConceptLimit == 4
\* The span of the meters route: 24 hours at index.ts:46, here two hours
\* (in ticks).
MetersWindow == 4
\* The hovers followed in the front end.
MaxHovers == 3
\* The same eventLimit (part_000:25) for the runs followed through
\* refreshMeters, which are checked on smaller batches.
RefreshEventLimit == 2

VARIABLES
    kv,         \* SENTIMENT_DATA: key (ISO string) -> [value, metadata]
    qpc,        \* getHistoricalMeters: "idle" | "listing" | "done"
    qStart,     \* the caller's start Date (an instant), as the callee leaves it
    qEnd,       \* the caller's end Date
    qArgs,      \* the instants the caller passed: [start, end]
    startIso,   \* part_000:154
    endIso,     \* part_000:155
    prefixes,   \* part_000:156
    prefixIdx,  \* position of the for loop over prefixes (1-based)
    cursor,     \* part_000:160, NoCursor when undefined
    results,    \* part_000:157
    listLog     \* every list request issued: [prefix, cursor, complete, keys]

storeVars == <<kv, qpc, qStart, qEnd, qArgs, startIso, endIso, prefixes,
               prefixIdx, cursor, results, listLog>>

VARIABLES
    fhOptions,      \* firehose-client.ts:18: [eventLimit, durationMs], 0 when unset
    isClosed,       \* firehose-client.ts:22
    timeoutSet,     \* firehose-client.ts:21: a duration timer is pending
    eventCount,     \* firehose-client.ts:30
    wsState,        \* the subscription: "open" | "closing" | "closed"
    resolveCount,   \* calls of resolve() (firehose-client.ts:42)
    closeCalls,     \* calls of jetstream.close() (firehose-client.ts:41)
    onErrorCalls,   \* invocations of options.onError
    onPostCalls,    \* invocations of options.onPost
    eventsSeen      \* stream events delivered so far

fhVars == <<fhOptions, isClosed, timeoutSet, eventCount, wsState, resolveCount,
            closeCalls, onErrorCalls, onPostCalls, eventsSeen>>

VARIABLES
    ppc,            \* updateMeters: "collecting" | "awaiting" | "done" | "rejected";
                    \* "finished" when refreshMeters has dealt with its result
    apiKey,         \* env.OPENROUTER_API_KEY, <<>> when missing or empty
    collectedPosts, \* part_000:22: the buffered posts (each its event number)
    calls,          \* the analyzeSentiment calls of part_000:52, in batch order
    requestLog,     \* the post of every request sent to the provider
    overtaken,      \* some call settled while an earlier call of the batch was pending
    tally,          \* part_000:37-48 after the loop of part_000:56-80
    returned,       \* what updateMeters returned: {} for null, {data}
    now             \* the clock, an instant

pipeVars == <<ppc, apiKey, collectedPosts, calls, requestLog, overtaken, tally,
              returned, now>>

VARIABLES
    reply,          \* the shape of the provider's reply handed to the parser
    parsed,         \* what parseSentimentResponse returned for it
    counted,        \* part_000:37-48 after the loop body ran on that outcome
    rpc             \* "idle" | "reply" | "parsed" | "counted"

parseVars == <<reply, parsed, counted, rpc>>

VARIABLES
    onPostThrows,   \* invocations of options.onPost that threw or rejected
    malformedSeen,  \* created events whose record could not be read
    lastPostAfter   \* onError calls and onPost throws before the last onPost call

obsVars == <<onPostThrows, malformedSeen, lastPostAfter>>

VARIABLES
    putLog          \* the key of every SENTIMENT_DATA.put refreshMeters made

saveVars == <<putLog>>

VARIABLES
    request,        \* the request the fetch handler was last called with
    responded,      \* the Response it returned
    storeReads      \* the list and get operations it issued for that request

fetchVars == <<request, responded, storeReads>>

VARIABLES
    hoveredTimestamp,     \* App.tsx:35, {} for null
    conceptFetchTimeout,  \* App.tsx:37: the pending timer's hover, 0 when none is pending
    hoverLog,             \* the hovers so far: timestamp, and whether the next one cleared its timer
    conceptRequests,      \* the fetchConcepts calls so far: hover, timestamp, status
    wordCloudData         \* App.tsx:34

uiVars == <<hoveredTimestamp, conceptFetchTimeout, hoverLog, conceptRequests,
            wordCloudData>>

vars == <<storeVars, fhVars, pipeVars, parseVars, obsVars, saveVars, fetchVars, uiVars>>

(***************************************************************************)
(* Strings.  A string is a sequence of one-character strings; JavaScript   *)
(* compares strings by code unit, which Code gives for the characters of   *)
(* an ISO-8601 timestamp.                                                  *)
(***************************************************************************)
DigitChars == <<"0", "1", "2", "3", "4", "5", "6", "7", "8", "9">>

\* The code unit of each character of a timestamp.
CharCode ==
    [c \in {"-", ".", ":", "T", "Z"} \cup {DigitChars[i] : i \in 1..10} |->
        CASE c = "-" -> 45
          [] c = "." -> 46
          [] c = ":" -> 58
          [] c = "T" -> 84
          [] c = "Z" -> 90
          [] OTHER -> 47 + (CHOOSE i \in 1..10 : DigitChars[i] = c)]

\* -1, 0, 1: the order of the relational operators on strings: by the code
\* units at the first position where they differ, a proper prefix first.
StrCompare(a, b) ==
    LET n    == IF Len(a) < Len(b) THEN Len(a) ELSE Len(b)
        diff == {i \in 1..n : a[i] # b[i]}
    IN  IF diff = {}
        THEN (IF Len(a) < Len(b) THEN -1 ELSE IF Len(a) > Len(b) THEN 1 ELSE 0)
        ELSE LET i == CHOOSE i \in diff : \A j \in diff : i <= j
             IN  IF CharCode[a[i]] < CharCode[b[i]] THEN -1 ELSE 1

StrGeq(a, b) == StrCompare(a, b) >= 0
StrLeq(a, b) == StrCompare(a, b) <= 0

\* String.prototype.substring(0, n)
Substring0(s, n) == SubSeq(s, 1, IF n < Len(s) THEN n ELSE Len(s))

StartsWith(s, p) == Len(p) <= Len(s) /\ SubSeq(s, 1, Len(p)) = p

TwoDigits(n) == <<DigitChars[(n \div 10) + 1], DigitChars[(n % 10) + 1]>>

(***************************************************************************)
(* Dates.  A Date is its instant in ticks.                                 *)
(***************************************************************************)
Times == 0..MaxTime

\* Date.prototype.toISOString: YYYY-MM-DDTHH:mm:ss.sssZ, zero padded, UTC.
ToISOString(t) ==
    LET hourAbs == 22 + (t \div TicksPerHour)
        day     == 3 + (hourAbs \div 24)
        hour    == hourAbs % 24
        minute  == ((t % TicksPerHour) * 60) \div TicksPerHour
    IN  <<"2", "0", "2", "5", "-", "0", "1", "-">> \o TwoDigits(day) \o <<"T">>
        \o TwoDigits(hour) \o <<":">> \o TwoDigits(minute)
        \o <<":", "0", "0", ".", "0", "0", "0", "Z">>

\* The same with the minutes left as they are.
SetMinutesKept(t) == t

\* Date.prototype.setMinutes(0, 0, 0): the instant floored to its hour.
SetMinutesZero(t) == t - (t % TicksPerHour)

\* current.setHours(current.getHours() + 1)
AddOneHour(t) == t + TicksPerHour

(***************************************************************************)
(* Arrays.                                                                 *)
(***************************************************************************)
RECURSIVE InsertIndex(_, _, _)
\* Index x placed after every index e of `sorted` with cmp[e][x] <= 0.
InsertIndex(sorted, x, cmp) ==
    IF sorted = <<>> THEN <<x>>
    ELSE IF cmp[Head(sorted)][x] <= 0
         THEN <<Head(sorted)>> \o InsertIndex(Tail(sorted), x, cmp)
         ELSE <<x>> \o sorted

RECURSIVE SortIndices(_, _)
\* The indices 1..n in sorted order, equal elements in index order.
SortIndices(n, cmp) ==
    IF n = 0 THEN <<>>
    ELSE InsertIndex(SortIndices(n - 1, cmp), n, cmp)

\* Array.prototype.sort(compareFn), a stable sort (ECMAScript 2019);
\* cmp[i][j] is compareFn(s[i], s[j]).
ArraySort(s, cmp) ==
    LET perm == SortIndices(Len(s), cmp)
    IN  [i \in 1..Len(s) |-> s[perm[i]]]

(***************************************************************************)
(* The key-value store (KVNamespace).  An entry holds the value body and   *)
(* the metadata attached to the key: {} when none was given, {m} else.     *)
(***************************************************************************)
\* KVNamespace.put(key, value, {metadata}): overwrites.
KvPut(store, key, value, metadata) ==
    [k \in (DOMAIN store) \cup {key} |->
        IF k = key THEN [value |-> value, metadata |-> {metadata}]
        ELSE store[k]]

RECURSIVE SortedKeys(_)
\* The keys of a set in the store's listing order (lexicographic).
SortedKeys(S) ==
    IF S = {} THEN <<>>
    ELSE LET m == CHOOSE k \in S : \A o \in S : StrLeq(k, o)
         IN  <<m>> \o SortedKeys(S \ {m})

NoCursor == <<>>

\* KVNamespace.list({prefix, cursor}) answering with a page of n keys at
\* most: the keys under the prefix after the cursor, in order, each with
\* its metadata; list_complete when none is left, a cursor otherwise.
KvList(store, prefix, cur, n) ==
    LET under == {k \in DOMAIN store : StartsWith(k, prefix)}
        rest  == {k \in under : cur = NoCursor \/ StrCompare(k, cur) > 0}
        all   == SortedKeys(rest)
        page  == SubSeq(all, 1, IF n < Len(all) THEN n ELSE Len(all))
    IN  [keys |-> [i \in 1..Len(page) |->
                     [name |-> page[i], metadata |-> store[page[i]].metadata]],
         list_complete |-> Len(page) = Len(all),
         cursor |-> IF Len(page) = Len(all) THEN NoCursor ELSE page[Len(page)]]

(***************************************************************************)
(* generateHourPrefixes (part_000:128-146).  Both arguments are mutated by *)
(* setMinutes; the operator returns the prefixes and the Dates as left.    *)
(***************************************************************************)
RECURSIVE PrefixLoopExclusive(_, _, _)
PrefixLoopExclusive(current, end, acc) ==
    IF current < end
    THEN PrefixLoopExclusive(AddOneHour(current), end,
                    Append(acc, Substring0(ToISOString(current), 13)))
    ELSE acc

\* The loop of part_000:135-143 from `current`, towards `end`.
RECURSIVE PrefixLoop(_, _, _)
PrefixLoop(current, end, acc) ==
    IF current <= end
    THEN PrefixLoop(AddOneHour(current), end,
                    Append(acc, Substring0(ToISOString(current), 13)))
    ELSE acc

GenerateHourPrefixes(start, end) ==
    LET s == SetMinutesZero(start)
        e == SetMinutesZero(end)
    IN  [prefixes |-> PrefixLoop(s, e, <<>>), start |-> s, end |-> e]

(***************************************************************************)
(* getHistoricalMeters (part_000:149-190).                                 *)
(***************************************************************************)
\* a.timestamp.localeCompare(b.timestamp): on timestamps of one format the
\* collation order is the order of the digits.
CompareTimestampDescending(a, b) == StrCompare(b.timestamp, a.timestamp)

CompareTimestamp(a, b) == StrCompare(a.timestamp, b.timestamp)

\* part_000:187: results.sort by timestamp.
SortResults(found) ==
    ArraySort(found, [i \in 1..Len(found) |-> [j \in 1..Len(found) |->
                         CompareTimestamp(found[i], found[j])]])

\* part_000:172: the exact-range filter on one listed key.
InRange(key, sIso, eIso) ==
    StrGeq(key.name, sIso) /\ StrLeq(key.name, eIso) /\ key.metadata # {}

\* part_000:173-176: {...key.metadata, timestamp: key.name}
RecordOf(key) ==
    ("timestamp" :> key.name) @@ (CHOOSE m \in key.metadata : TRUE)

\* part_000:171-178: the records one page adds, in page order.
PageRecords(keys, sIso, eIso) ==
    LET kept == SelectSeq(keys, LAMBDA key : InRange(key, sIso, eIso))
    IN  [i \in 1..Len(kept) |-> RecordOf(kept[i])]

\* The metadata and bodies the model's puts write.
SampleSentiments ==
    { [messageCount |-> 1, happinessAvg |-> 7, sadnessAvg |-> 1, angerAvg |-> 0,
       fearAvg |-> 3, surpriseAvg |-> 5, disgustAvg |-> 4],
      [messageCount |-> 2, happinessAvg |-> 2, sadnessAvg |-> 6, angerAvg |-> 4,
       fearAvg |-> 1, surpriseAvg |-> 0, disgustAvg |-> 3] }

StoreInit ==
    /\ kv = <<>>
    /\ qpc = "idle"
    /\ qStart = 0
    /\ qEnd = 0
    /\ qArgs = [start |-> 0, end |-> 0]
    /\ startIso = <<>>
    /\ endIso = <<>>
    /\ prefixes = <<>>
    /\ prefixIdx = 0
    /\ cursor = NoCursor
    /\ results = <<>>
    /\ listLog = <<>>

\* index.ts:17: SENTIMENT_DATA.put(timestamp, JSON.stringify(topConcepts),
\* {metadata: sentiments}) with the timestamp of a run ending at instant t.
StorePut(t, sentiments) ==
    /\ qpc = "idle"
    /\ Cardinality((DOMAIN kv) \cup {ToISOString(t)}) <= MaxKeys
    /\ kv' = KvPut(kv, ToISOString(t), "{}", sentiments)
    /\ UNCHANGED <<qpc, qStart, qEnd, qArgs, startIso, endIso, prefixes,
                   prefixIdx, cursor, results, listLog>>
    /\ UNCHANGED <<fhVars, pipeVars, parseVars, obsVars, saveVars, fetchVars, uiVars>>

\* part_000:154-160: a call getHistoricalMeters(kv, start, end) up to its
\* first list request.
QueryBegin(start, end) ==
    /\ qpc = "idle"
    /\ LET g == GenerateHourPrefixes(start, end)
       IN  /\ qArgs' = [start |-> start, end |-> end]
           /\ startIso' = ToISOString(start)
           /\ endIso' = ToISOString(end)
           /\ qStart' = g.start
           /\ qEnd' = g.end
           /\ prefixes' = g.prefixes
           /\ prefixIdx' = 1
           /\ qpc' = IF g.prefixes = <<>> THEN "done" ELSE "listing"
    /\ cursor' = NoCursor
    /\ results' = <<>>
    /\ UNCHANGED <<kv, listLog>>
    /\ UNCHANGED <<fhVars, pipeVars, parseVars, obsVars, saveVars, fetchVars, uiVars>>

\* The same with the cursor of part_000:165 never passed on.
QueryListPageNoCursor(n) ==
    /\ qpc = "listing"
    /\ LET prefix == prefixes[prefixIdx]
           page   == KvList(kv, prefix, NoCursor, n)
           found  == results \o PageRecords(page.keys, startIso, endIso)
           last   == page.list_complete /\ prefixIdx = Len(prefixes)
       IN  /\ listLog' = Append(listLog,
                  [prefix |-> prefix, cursor |-> NoCursor,
                   complete |-> page.list_complete,
                   returned |-> page.cursor,
                   keys |-> [i \in 1..Len(page.keys) |-> page.keys[i].name]])
           /\ cursor' = IF page.list_complete THEN NoCursor ELSE page.cursor
           /\ prefixIdx' = IF page.list_complete /\ ~last
                           THEN prefixIdx + 1 ELSE prefixIdx
           /\ results' = IF last THEN SortResults(found) ELSE found
           /\ qpc' = IF last THEN "done" ELSE "listing"
    /\ UNCHANGED <<kv, qStart, qEnd, qArgs, startIso, endIso, prefixes>>
    /\ UNCHANGED <<fhVars, pipeVars, parseVars, obsVars, saveVars, fetchVars, uiVars>>

\* part_000:163-189: one list request answered with a page of n keys at
\* most, its keys filtered, and the loops advanced; after the last page of
\* the last prefix the results are sorted and returned.
QueryListPage(n) ==
    /\ qpc = "listing"
    /\ LET prefix == prefixes[prefixIdx]
           page   == KvList(kv, prefix, cursor, n)
           found  == results \o PageRecords(page.keys, startIso, endIso)
           last   == page.list_complete /\ prefixIdx = Len(prefixes)
       IN  /\ listLog' = Append(listLog,
                  [prefix |-> prefix, cursor |-> cursor,
                   complete |-> page.list_complete,
                   returned |-> page.cursor,
                   keys |-> [i \in 1..Len(page.keys) |-> page.keys[i].name]])
           /\ cursor' = IF page.list_complete THEN NoCursor ELSE page.cursor
           /\ prefixIdx' = IF page.list_complete /\ ~last
                           THEN prefixIdx + 1 ELSE prefixIdx
           /\ results' = IF last THEN SortResults(found) ELSE found
           /\ qpc' = IF last THEN "done" ELSE "listing"
    /\ UNCHANGED <<kv, qStart, qEnd, qArgs, startIso, endIso, prefixes>>
    /\ UNCHANGED <<fhVars, pipeVars, parseVars, obsVars, saveVars, fetchVars, uiVars>>


(***************************************************************************)
(* Claims about the range query.                                           *)
(***************************************************************************)
\* The instants whose timestamp is a key of the store.
StoredTimes == {t \in Times : ToISOString(t) \in DOMAIN kv}

ReturnedKeys == {results[i].timestamp : i \in DOMAIN results}

\* C1: when getHistoricalMeters(start, end) with start <= end has returned,
\* a stored key is among the returned records if and only if its instant t
\* satisfies start <= t <= end (both ends inclusive), whatever pages the
\* store answered with, and nothing but stored keys is returned.
C1_RangeQueryExact ==
    (qpc = "done" /\ qArgs.start <= qArgs.end) =>
        /\ \A t \in StoredTimes :
              (ToISOString(t) \in ReturnedKeys)
                  <=> (qArgs.start <= t /\ t <= qArgs.end)
        /\ ReturnedKeys \subseteq DOMAIN kv

\* A finished query whose bounds cut the first and the last hour: a stored
\* key of the start's hour lies before start, one of the end's hour lies
\* after end, one lies inside, and some prefix took more than one page.
C1_Witness ==
    /\ qpc = "done"
    /\ qArgs.start < qArgs.end
    /\ \E t \in StoredTimes :
          t < qArgs.start /\ SetMinutesZero(t) = SetMinutesZero(qArgs.start)
    /\ \E t \in StoredTimes :
          t > qArgs.end /\ SetMinutesZero(t) = SetMinutesZero(qArgs.end)
    /\ \E t \in StoredTimes : qArgs.start <= t /\ t <= qArgs.end
    /\ \E i \in DOMAIN listLog : ~listLog[i].complete

\* C2: the returned sequence is strictly ascending by timestamp: sorted,
\* and no key twice.
C2_SortedNoDuplicates ==
    qpc = "done" =>
        \A i \in DOMAIN results : \A j \in DOMAIN results :
            i < j => StrCompare(results[i].timestamp, results[j].timestamp) < 0

\* A finished query that returned keys of two hours, one hour paged.
C2_Witness ==
    /\ qpc = "done"
    /\ \E i \in DOMAIN results : \E j \in DOMAIN results :
          Substring0(results[i].timestamp, 13) # Substring0(results[j].timestamp, 13)
    /\ \E i \in DOMAIN listLog : ~listLog[i].complete /\ listLog[i].keys # <<>>

(***************************************************************************)
(* Numbers.  A JavaScript number is NaN or a non-negative rational in      *)
(* lowest terms (no reply the parser accepts yields a negative one).       *)
(***************************************************************************)
RECURSIVE Gcd(_, _)
Gcd(a, b) == IF b = 0 THEN a ELSE Gcd(b, a % b)

NaN == [nan |-> TRUE, num |-> 0, den |-> 1]

Rat(n, d) ==
    LET g == Gcd(n, d)
    IN  [nan |-> FALSE, num |-> n \div g, den |-> d \div g]

Num(n) == Rat(n, 1)

\* a + b
NumAdd(a, b) ==
    IF a.nan \/ b.nan THEN NaN
    ELSE Rat(a.num * b.den + b.num * a.den, a.den * b.den)

\* a / n for a count n >= 1
NumDivide(a, n) == IF a.nan THEN NaN ELSE Rat(a.num, a.den * n)

(***************************************************************************)
(* Text of the classifier.  A string is a sequence of tokens: a label such *)
(* as "happiness:", a digit, ".", "-", ",", a blank, a line break, or a    *)
(* word.                                                                   *)
(***************************************************************************)
DigitTokens == {DigitChars[i] : i \in 1..10}
\* [\d.]
NumberTokens == DigitTokens \cup {"."}
\* \s
SpaceTokens == {" ", "\n"}

DigitOf(c) == (CHOOSE i \in 1..10 : DigitChars[i] = c) - 1

RECURSIVE DigitsValue(_)
DigitsValue(ds) ==
    IF ds = <<>> THEN 0
    ELSE 10 * DigitsValue(SubSeq(ds, 1, Len(ds) - 1)) + DigitOf(ds[Len(ds)])

RECURSIVE Pow10(_)
Pow10(k) == IF k = 0 THEN 1 ELSE 10 * Pow10(k - 1)

\* The last position of the run of tokens of S that starts at p (p - 1 when
\* the token at p is not in S or p is past the end).
RunEnd(text, p, S) ==
    LET stops == {q \in p..Len(text) : text[q] \notin S}
    IN  IF stops = {} THEN Len(text)
        ELSE (CHOOSE q \in stops : \A o \in stops : q <= o) - 1

\* parseInt in its place: the leading digits only.
ParseInteger(text) ==
    LET int == SubSeq(text, 1, RunEnd(text, 1, DigitTokens))
    IN  IF int = <<>> THEN NaN ELSE Num(DigitsValue(int))

\* parseFloat on a capture of [\d.]+: the longest prefix that is a decimal
\* literal, NaN when it holds no digit.
ParseFloat(text) ==
    LET i       == RunEnd(text, 1, DigitTokens)
        int     == SubSeq(text, 1, i)
        hasDot  == i + 1 <= Len(text) /\ text[i + 1] = "."
        j       == IF hasDot THEN RunEnd(text, i + 2, DigitTokens) ELSE i
        frac    == IF hasDot THEN SubSeq(text, i + 2, j) ELSE <<>>
    IN  IF int = <<>> /\ frac = <<>> THEN NaN
        ELSE Rat(DigitsValue(int) * Pow10(Len(frac)) + DigitsValue(frac),
                 Pow10(Len(frac)))

\* The capture of /label\s*([\d.]+)/ with the label matched at position i:
\* <<>> when the pattern does not match there.
ScoreCaptureAt(content, i) ==
    LET p == RunEnd(content, i + 1, SpaceTokens) + 1
    IN  SubSeq(content, p, RunEnd(content, p, NumberTokens))

\* content.match(/label\s*([\d.]+)/): the capture of the leftmost match,
\* <<>> for null.
ScoreMatch(content, label) ==
    LET at == {i \in 1..Len(content) :
                  content[i] = label /\ ScoreCaptureAt(content, i) # <<>>}
    IN  IF at = {} THEN <<>>
        ELSE ScoreCaptureAt(content, CHOOSE i \in at : \A o \in at : i <= o)

\* The capture of /concepts:\s*(.+)/ with the label at position i: \s* is
\* greedy and gives blanks back until (.+) finds a token that is no line
\* break; <<>> when it finds none.
ConceptsCaptureAt(content, i) ==
    LET q      == RunEnd(content, i + 1, SpaceTokens) + 1
        starts == {p \in (i + 1)..q : p <= Len(content) /\ content[p] # "\n"}
    IN  IF starts = {} THEN <<>>
        ELSE LET p == CHOOSE p \in starts : \A o \in starts : p >= o
             IN  SubSeq(content, p,
                        RunEnd(content, p, {content[k] : k \in 1..Len(content)} \ {"\n"}))

\* content.match(/concepts:\s*(.+)/)
ConceptsMatch(content) ==
    LET at == {i \in 1..Len(content) :
                  content[i] = "concepts:" /\ ConceptsCaptureAt(content, i) # <<>>}
    IN  IF at = {} THEN <<>>
        ELSE ConceptsCaptureAt(content, CHOOSE i \in at : \A o \in at : i <= o)

\* String.prototype.trim
Trim(text) ==
    LET keep == {k \in 1..Len(text) : text[k] \notin SpaceTokens}
    IN  IF keep = {} THEN <<>>
        ELSE SubSeq(text, CHOOSE k \in keep : \A o \in keep : k <= o,
                          CHOOSE k \in keep : \A o \in keep : k >= o)

RECURSIVE Split(_)
\* String.prototype.split(",")
Split(text) ==
    LET commas == {k \in 1..Len(text) : text[k] = ","}
    IN  IF commas = {} THEN <<text>>
        ELSE LET k == CHOOSE k \in commas : \A o \in commas : k <= o
             IN  <<SubSeq(text, 1, k - 1)>> \o Split(SubSeq(text, k + 1, Len(text)))

\* index.ts:222-226: trim, split(","), trim each, drop the empty ones.
ConceptsOf(capture) ==
    LET parts   == Split(Trim(capture))
        trimmed == [k \in 1..Len(parts) |-> Trim(parts[k])]
    IN  SelectSeq(trimmed, LAMBDA c : Len(c) > 0)

(***************************************************************************)
(* The classifier (index.ts:155-241).  A function body either returns a    *)
(* value or throws: [thrown, value], the value a record in both cases.     *)
(***************************************************************************)
Return(v) == [thrown |-> FALSE, value |-> v]
Throw(message) == [thrown |-> TRUE, value |-> [message |-> message]]

ScoreLabels ==
    <<"happiness:", "sadness:", "anger:", "fear:", "surprise:", "disgust:">>

\* The same with disgustMatch left out of the test of index.ts:210-218.
ParseBodyFiveTested(content) ==
    LET text     == content.text
        score    == [k \in 1..6 |-> ScoreMatch(text, ScoreLabels[k])]
        concepts == ConceptsMatch(text)
    IN  IF (\E k \in 1..5 : score[k] = <<>>) \/ concepts = <<>>
        THEN Return([error |-> text])
        ELSE Return([happiness |-> ParseFloat(score[1]),
                     sadness   |-> ParseFloat(score[2]),
                     anger     |-> ParseFloat(score[3]),
                     fear      |-> ParseFloat(score[4]),
                     surprise  |-> ParseFloat(score[5]),
                     disgust   |-> ParseFloat(score[6]),
                     concepts  |-> ConceptsOf(concepts)])

\* index.ts:202-236: the body of parseSentimentResponse's try block.
\* Calling match on a content that is no string throws a TypeError.
ParseBody(content) ==
    IF ~content.isString
    THEN Throw(<<"TypeError: Cannot read properties of null (reading 'match')">>)
    ELSE LET text     == content.text
             score    == [k \in 1..6 |-> ScoreMatch(text, ScoreLabels[k])]
             concepts == ConceptsMatch(text)
         IN  IF (\E k \in 1..6 : score[k] = <<>>) \/ concepts = <<>>
             THEN Return([error |-> text])
             ELSE Return([happiness |-> ParseFloat(score[1]),
                          sadness   |-> ParseFloat(score[2]),
                          anger     |-> ParseFloat(score[3]),
                          fear      |-> ParseFloat(score[4]),
                          surprise  |-> ParseFloat(score[5]),
                          disgust   |-> ParseFloat(score[6]),
                          concepts  |-> ConceptsOf(concepts)])

\* index.ts:200-241: parseSentimentResponse; the catch returns
\* {error: String(err)}.
ParseSentimentResponse(content) ==
    LET body == ParseBody(content)
    IN  IF body.thrown THEN Return([error |-> body.value.message]) ELSE body

\* What the provider does with one request.
\*   "reject"    fetch rejects (network failure)
\*   "status"    a reply whose status is not 2xx
\*   "badjson"   a 2xx reply whose body is no JSON: response.json() rejects
\*   "nochoices" a 2xx JSON body without choices[0].message
\*   "content"   a 2xx JSON body with choices[0].message.content
Response(kind, content) == [kind |-> kind, content |-> content]

\* index.ts:186-194: the body of analyzeSentiment's try block from the
\* moment fetch settles.
AnalyzeBody(response) ==
    CASE response.kind = "reject" ->
            Throw(<<"TypeError: fetch failed">>)
      [] response.kind = "status" ->
            Return([error |-> <<"OpenRouter API error: ", "5", "0", "0">>])
      [] response.kind = "badjson" ->
            Throw(<<"SyntaxError: Unexpected token">>)
      [] response.kind = "nochoices" ->
            Throw(<<"TypeError: Cannot read properties of undefined">>)
      [] OTHER -> ParseSentimentResponse(response.content)

\* The same without the catch of index.ts:195-197.
AnalyzeSettleUncaught(response) == AnalyzeBody(response)

\* index.ts:164-197: how a call that issued its request settles; the catch
\* returns {error: `Error calling OpenRouter: ${err}`}.
AnalyzeSettle(response) ==
    LET body == AnalyzeBody(response)
    IN  IF body.thrown
        THEN Return([error |-> <<"Error calling OpenRouter: ">> \o body.value.message])
        ELSE body

\* index.ts:160-162: the check made before any request.
MissingKeyResult == [error |-> <<"OPENROUTER_API_KEY not configured">>]

(***************************************************************************)
(* Replies of the provider used by the model.                              *)
(***************************************************************************)
ScoreLines(h, s, a, f, su, d) ==
    <<"happiness:", h, "\n", "sadness:", s, "\n", "anger:", a, "\n",
      "fear:", f, "\n", "surprise:", su, "\n", "disgust:", d, "\n">>

Str(text) == [isString |-> TRUE, text |-> text]

\* The example of the system prompt (index.ts:136-142).
ReplyExample ==
    Str(ScoreLines("7", "1", "0", "3", "5", "4")
        \o <<"concepts:", "peace", ",", "ukraine war">>)
\* Four concepts, one differing from "peace" in case only, one a number.
ReplyFour ==
    Str(ScoreLines("4", "2", "2", "0", "1", "0")
        \o <<"concepts:", " ", "Peace", ",", " ", "hope", ",", "war", ",", "7", "\n">>)
\* A concept that names a property every object inherits.
ReplyConstructor ==
    Str(ScoreLines("9", "0", "0", "0", "3", "0")
        \o <<"concepts:", "constructor", ",", "hope">>)
\* A fear score without a digit: parseFloat(".") is NaN.
ReplyDot ==
    Str(ScoreLines("7", "1", "0", ".", "5", "4") \o <<"concepts:", "peace">>)
\* index.ts:152
ReplyNoSentiment == Str(<<"NO SENTIMENT">>)
\* The example without its disgust line.
ReplyMissingDisgust ==
    Str(<<"happiness:", "7", "\n", "sadness:", "1", "\n", "anger:", "0", "\n",
          "fear:", "3", "\n", "surprise:", "5", "\n",
          "concepts:", "peace", ",", "ukraine war">>)
\* choices[0].message.content is null.
ReplyNull == [isString |-> FALSE, text |-> <<>>]

Responses ==
    { Response("reject", ReplyNull), Response("status", ReplyNull),
      Response("badjson", ReplyNull), Response("nochoices", ReplyNull) }
    \cup { Response("content", c) :
             c \in {ReplyExample, ReplyFour, ReplyConstructor, ReplyDot,
                    ReplyNoSentiment, ReplyMissingDisgust, ReplyNull} }

\* analyzeSentiment's settlement for each response of the model.
SettledBy == [r \in Responses |-> AnalyzeSettle(r)]

(***************************************************************************)
(* Plain objects used as tables (part_000:48, 99).  An object created by   *)
(* {} has its own keys, in insertion order, and inherits the properties of *)
(* Object.prototype.  A stored value is a number n ([isNum |-> TRUE]) or   *)
(* the string an inherited value turned into, followed by n times "1".    *)
(***************************************************************************)
EmptyObject == [keys |-> <<>>, vals |-> <<>>]

\* The lower-case names every object inherits.
InheritedKeys == {<<"constructor">>, <<"__proto__">>}

HasOwn(obj, k) == k \in DOMAIN obj.vals

CountValue(n) == [isNum |-> TRUE, n |-> n]
GarbageValue(n) == [isNum |-> FALSE, n |-> n]

\* obj[k] = v.  Assigning a string to __proto__ is ignored by its setter.
ObjSet(obj, k, v) ==
    IF k = <<"__proto__">> THEN obj
    ELSE IF HasOwn(obj, k) THEN [obj EXCEPT !.vals[k] = v]
    ELSE [keys |-> Append(obj.keys, k), vals |-> (k :> v) @@ obj.vals]

\* part_000:71: obj[k] = (obj[k] || 0) + 1.  An own count n gives n + 1, a
\* missing key 0 + 1; an inherited value is truthy and no number, so + 1
\* appends "1" to its string, and so again on every later occurrence.
IncrementConcept(obj, k) ==
    LET cur == IF HasOwn(obj, k) THEN obj.vals[k]
               ELSE IF k \in InheritedKeys THEN GarbageValue(0)
               ELSE CountValue(0)
    IN  ObjSet(obj, k, [cur EXCEPT !.n = @ + 1])

\* String.prototype.toLowerCase on the words of the model.
ToLowerCase(text) ==
    [i \in 1..Len(text) |-> IF text[i] = "Peace" THEN "peace" ELSE text[i]]

\* A canonical array index: decimal digits without a leading zero.
IsArrayIndex(k) ==
    /\ Len(k) >= 1
    /\ \A i \in 1..Len(k) : k[i] \in DigitTokens
    /\ (Len(k) > 1 => k[1] # "0")

RECURSIVE SortedIndexKeys(_)
SortedIndexKeys(S) ==
    IF S = {} THEN <<>>
    ELSE LET m == CHOOSE k \in S : \A o \in S : DigitsValue(k) <= DigitsValue(o)
         IN  <<m>> \o SortedIndexKeys(S \ {m})

\* Object.entries(obj): the array-index keys in ascending numeric order,
\* then the other keys in insertion order.
ObjectEntries(obj) ==
    LET index  == SortedIndexKeys({k \in DOMAIN obj.vals : IsArrayIndex(k)})
        others == SelectSeq(obj.keys, LAMBDA k : ~IsArrayIndex(k))
        order  == index \o others
    IN  [i \in 1..Len(order) |-> <<order[i], obj.vals[order[i]]>>]

(***************************************************************************)
(* The aggregator (part_000:36-124).                                       *)
(***************************************************************************)
\* part_000:37-48
InitialAcc ==
    [messageCount |-> 0, failureCount |-> 0, noSentimentCount |-> 0,
     happiness |-> Num(0), sadness |-> Num(0), anger |-> Num(0),
     fear |-> Num(0), surprise |-> Num(0), disgust |-> Num(0),
     conceptCounts |-> EmptyObject]

RECURSIVE CountConcepts(_, _)
\* part_000:69-72
CountConcepts(obj, concepts) ==
    IF concepts = <<>> THEN obj
    ELSE CountConcepts(IncrementConcept(obj, ToLowerCase(Head(concepts))),
                       Tail(concepts))

\* The loop body with the test of part_000:57 dropped: every outcome that
\* carries scores or not is counted as a message.
ReduceStepCountAll(acc, result) ==
    [acc EXCEPT !.messageCount = @ + 1,
                !.happiness = IF "error" \in DOMAIN result THEN @
                              ELSE NumAdd(@, result.happiness)]

\* The same with the test of part_000:74 left out: every failure counts as
\* a failure, NO SENTIMENT as that too.
ReduceStepFailureAlways(acc, result) ==
    IF "error" \notin DOMAIN result
    THEN [acc EXCEPT !.messageCount = @ + 1,
                     !.happiness = NumAdd(@, result.happiness),
                     !.sadness = NumAdd(@, result.sadness),
                     !.anger = NumAdd(@, result.anger),
                     !.fear = NumAdd(@, result.fear),
                     !.surprise = NumAdd(@, result.surprise),
                     !.disgust = NumAdd(@, result.disgust),
                     !.conceptCounts = CountConcepts(@, result.concepts)]
    ELSE IF result.error # <<"NO SENTIMENT">>
         THEN [acc EXCEPT !.failureCount = @ + 1]
         ELSE [acc EXCEPT !.failureCount = @ + 1, !.noSentimentCount = @ + 1]

\* part_000:57-79: the body of the loop over the results.
ReduceStep(acc, result) ==
    IF "error" \notin DOMAIN result
    THEN [acc EXCEPT !.messageCount = @ + 1,
                     !.happiness = NumAdd(@, result.happiness),
                     !.sadness = NumAdd(@, result.sadness),
                     !.anger = NumAdd(@, result.anger),
                     !.fear = NumAdd(@, result.fear),
                     !.surprise = NumAdd(@, result.surprise),
                     !.disgust = NumAdd(@, result.disgust),
                     !.conceptCounts = CountConcepts(@, result.concepts)]
    ELSE IF result.error # <<"NO SENTIMENT">>
         THEN [acc EXCEPT !.failureCount = @ + 1]
         ELSE [acc EXCEPT !.noSentimentCount = @ + 1]

RECURSIVE Reduce(_, _)
\* part_000:56-80
Reduce(acc, outcomes) ==
    IF outcomes = <<>> THEN acc
    ELSE Reduce(ReduceStep(acc, Head(outcomes)), Tail(outcomes))

\* part_000:96: (a, b) => b[1] - a[1]; a difference that is NaN compares
\* as equal.
CompareCounts(a, b) ==
    IF a[2].isNum /\ b[2].isNum THEN b[2].n - a[2].n ELSE 0

RECURSIVE FromEntries(_, _)
\* part_000:99-102
FromEntries(obj, entries) ==
    IF entries = <<>> THEN obj
    ELSE FromEntries(ObjSet(obj, Head(entries)[1], Head(entries)[2]), Tail(entries))

\* part_000:95-102
TopConcepts(conceptCounts) ==
    LET entries == ObjectEntries(conceptCounts)
        sorted  == ArraySort(entries,
                       [i \in 1..Len(entries) |-> [j \in 1..Len(entries) |->
                           CompareCounts(entries[i], entries[j])]])
        n       == IF TopConceptLimit < Len(sorted) THEN TopConceptLimit
                   ELSE Len(sorted)
    IN  FromEntries(EmptyObject, SubSeq(sorted, 1, n))

\* The same without the test of part_000:83; 0 / 0 is NaN.
SummariseUnguarded(acc, timestamp) ==
    LET avg(total) == IF acc.messageCount = 0
                      THEN NaN
                      ELSE NumDivide(total, acc.messageCount)
    IN  {[timestamp    |-> timestamp,
          messageCount |-> acc.messageCount,
          happinessAvg |-> avg(acc.happiness),
          sadnessAvg   |-> avg(acc.sadness),
          angerAvg     |-> avg(acc.anger),
          fearAvg      |-> avg(acc.fear),
          surpriseAvg  |-> avg(acc.surprise),
          disgustAvg   |-> avg(acc.disgust),
          topConcepts  |-> TopConcepts(acc.conceptCounts)]}


\* part_000:83-124: what updateMeters returns for the reduced sums; {} is
\* null, {data} a summary.
Summarise(acc, timestamp) ==
    IF acc.messageCount > 0
    THEN {[timestamp    |-> timestamp,
           messageCount |-> acc.messageCount,
           happinessAvg |-> NumDivide(acc.happiness, acc.messageCount),
           sadnessAvg   |-> NumDivide(acc.sadness, acc.messageCount),
           angerAvg     |-> NumDivide(acc.anger, acc.messageCount),
           fearAvg      |-> NumDivide(acc.fear, acc.messageCount),
           surpriseAvg  |-> NumDivide(acc.surprise, acc.messageCount),
           disgustAvg   |-> NumDivide(acc.disgust, acc.messageCount),
           topConcepts  |-> TopConcepts(acc.conceptCounts)]}
    ELSE {}

(***************************************************************************)
(* connectToFirehose (firehose-client.ts:17-100).                          *)
(***************************************************************************)
\* cleanup() without the test of firehose-client.ts:33.
CleanupUnguarded(ws) ==
    /\ isClosed' = TRUE
    /\ timeoutSet' = FALSE
    /\ closeCalls' = closeCalls + 1
    /\ wsState' = IF ws = "open" THEN "closing" ELSE ws
    /\ resolveCount' = resolveCount + 1

\* firehose-client.ts:32-43: cleanup(), called with the subscription in
\* state ws.  jetstream.close() starts closing an open subscription; events
\* already on their way may still be delivered until it is closed.
Cleanup(ws) ==
    IF isClosed
    THEN /\ wsState' = ws
         /\ UNCHANGED <<isClosed, timeoutSet, closeCalls, resolveCount>>
    ELSE /\ isClosed' = TRUE
         /\ timeoutSet' = FALSE
         /\ closeCalls' = closeCalls + 1
         /\ wsState' = IF ws = "open" THEN "closing" ELSE ws
         /\ resolveCount' = resolveCount + 1

\* firehose-client.ts:20-30, 88-98 as updateMeters calls it (part_000:24-32):
\* an event limit, no duration, so no timer is set.
FirehoseInit ==
    /\ fhOptions = [eventLimit |-> EventLimit, durationMs |-> 0]
    /\ isClosed = FALSE
    /\ timeoutSet = FALSE
    /\ eventCount = 0
    /\ wsState = "open"
    /\ resolveCount = 0
    /\ closeCalls = 0
    /\ onErrorCalls = 0
    /\ onPostCalls = 0
    /\ eventsSeen = 0

\* No stream fault has been observed.
ObserveInit ==
    /\ onPostThrows = 0
    /\ malformedSeen = 0
    /\ lastPostAfter = [errors |-> 0, throws |-> 0]

\* The same with the comparison off by one.
OverLimitLate(count) ==
    fhOptions.eventLimit # 0 /\ count > fhOptions.eventLimit + 1

\* The same with the test never true.
OverLimitNever(count) == FALSE

\* firehose-client.ts:56: options.eventLimit && eventCount > options.eventLimit
OverLimit(count) ==
    fhOptions.eventLimit # 0 /\ count > fhOptions.eventLimit

\* firehose-client.ts:46-67: the handler of one created post.  Reading a
\* malformed event throws before the count; the catch reports it.  onPost
\* is the callback of part_000:26-28, which appends to the buffer.
OnCreate(malformed) ==
    /\ wsState \in {"open", "closing"}
    /\ eventsSeen < MaxEvents
    /\ eventsSeen' = eventsSeen + 1
    /\ IF malformed
       THEN /\ onErrorCalls' = onErrorCalls + 1
            /\ UNCHANGED <<eventCount, isClosed, timeoutSet, closeCalls,
                           resolveCount, wsState, onPostCalls, collectedPosts>>
       ELSE /\ eventCount' = eventCount + 1
            /\ IF OverLimit(eventCount + 1)
               THEN /\ Cleanup(wsState)
                    /\ UNCHANGED <<onPostCalls, collectedPosts>>
               ELSE /\ onPostCalls' = onPostCalls + 1
                    /\ collectedPosts' = Append(collectedPosts, eventsSeen + 1)
                    /\ UNCHANGED <<isClosed, timeoutSet, closeCalls,
                                   resolveCount, wsState>>
            /\ UNCHANGED onErrorCalls
    /\ UNCHANGED <<fhOptions, ppc, apiKey, calls, requestLog, overtaken, tally,
                   returned, now>>
    /\ UNCHANGED <<storeVars, parseVars, obsVars, saveVars, fetchVars, uiVars>>

\* firehose-client.ts:70-74: a transport error.
OnTransportError ==
    /\ wsState \in {"open", "closing"}
    /\ eventsSeen < MaxEvents
    /\ eventsSeen' = eventsSeen + 1
    /\ onErrorCalls' = onErrorCalls + 1
    /\ UNCHANGED <<fhOptions, isClosed, timeoutSet, eventCount, wsState,
                   resolveCount, closeCalls, onPostCalls>>
    /\ UNCHANGED <<pipeVars, storeVars, parseVars, obsVars, saveVars, fetchVars, uiVars>>

\* firehose-client.ts:82-85: the subscription closed, by the remote end or
\* as the end of a close the client started.
OnClose ==
    /\ wsState \in {"open", "closing"}
    /\ Cleanup("closed")
    /\ UNCHANGED <<fhOptions, eventCount, onErrorCalls, onPostCalls, eventsSeen>>
    /\ UNCHANGED <<pipeVars, storeVars, parseVars, obsVars, saveVars, fetchVars, uiVars>>

(***************************************************************************)
(* updateMeters (part_000:16-125).                                         *)
(***************************************************************************)
NoResult == [pending |-> TRUE]
NoResponse == Response("none", ReplyNull)

\* The same without the check of index.ts:160-162.
IssueCallKeyUnchecked(text, key) ==
    [call |-> [text |-> text, status |-> "pending", response |-> NoResponse,
               result |-> NoResult],
     requests |-> <<text>>]

\* index.ts:160-184: analyzeSentiment up to its first await: without a key
\* it returns at once, otherwise it has sent its one request.
IssueCall(text, key) ==
    IF key = <<>>
    THEN [call |-> [text |-> text, status |-> "fulfilled", response |-> NoResponse,
                    result |-> MissingKeyResult],
          requests |-> <<>>]
    ELSE [call |-> [text |-> text, status |-> "pending", response |-> NoResponse,
                    result |-> NoResult],
          requests |-> <<text>>]

RECURSIVE Concat(_)
Concat(seqs) == IF seqs = <<>> THEN <<>> ELSE Head(seqs) \o Concat(Tail(seqs))

PipelineInit ==
    /\ ppc = "collecting"
    /\ apiKey \in {<<>>, <<"sk-or-v1">>}
    /\ collectedPosts = <<>>
    /\ calls = <<>>
    /\ requestLog = <<>>
    /\ overtaken = FALSE
    /\ tally = InitialAcc
    /\ returned = {}
    /\ now = 0

\* The same without the await of part_000:24: the calls are issued while
\* the stream may still be delivering.
FanOutUnawaited ==
    /\ ppc = "collecting"
    /\ LET issued == [i \in 1..Len(collectedPosts) |->
                         IssueCall(collectedPosts[i], apiKey)]
       IN  /\ calls' = [i \in 1..Len(collectedPosts) |-> issued[i].call]
           /\ requestLog' = Concat([i \in 1..Len(collectedPosts) |-> issued[i].requests])
    /\ ppc' = "awaiting"
    /\ UNCHANGED <<apiKey, collectedPosts, overtaken, tally, returned, now>>
    /\ UNCHANGED <<fhVars, storeVars, parseVars, obsVars, saveVars, fetchVars, uiVars>>

\* part_000:34-53: connectToFirehose has resolved; analyzeSentiment is
\* called on every buffered post, each call running to its first await,
\* and only then is Promise.all awaited.
FanOut ==
    /\ ppc = "collecting"
    /\ resolveCount > 0
    /\ LET issued == [i \in 1..Len(collectedPosts) |->
                         IssueCall(collectedPosts[i], apiKey)]
       IN  /\ calls' = [i \in 1..Len(collectedPosts) |-> issued[i].call]
           /\ requestLog' = Concat([i \in 1..Len(collectedPosts) |-> issued[i].requests])
    /\ ppc' = "awaiting"
    /\ UNCHANGED <<apiKey, collectedPosts, overtaken, tally, returned, now>>
    /\ UNCHANGED <<fhVars, storeVars, parseVars, obsVars, saveVars, fetchVars, uiVars>>

\* index.ts:186-197: the request of call i is answered and the call settles.
CallSettle(i, response) ==
    /\ ppc = "awaiting"
    /\ calls[i].status = "pending"
    /\ LET c == SettledBy[response]
       IN  calls' = [calls EXCEPT
                        ![i].status = IF c.thrown THEN "rejected" ELSE "fulfilled",
                        ![i].response = response,
                        ![i].result = c.value]
    /\ overtaken' = (overtaken \/ \E j \in 1..(i - 1) : calls[j].status = "pending")
    /\ UNCHANGED <<ppc, apiKey, collectedPosts, requestLog, tally, returned, now>>
    /\ UNCHANGED <<fhVars, storeVars, parseVars, obsVars, saveVars, fetchVars, uiVars>>

\* part_000:51-124: Promise.all settles: it rejects as soon as one call has
\* rejected, and updateMeters with it; once every call is fulfilled the
\* results are reduced in batch order and the summary or null is returned.
Join ==
    /\ ppc = "awaiting"
    /\ \/ \E i \in DOMAIN calls : calls[i].status = "rejected"
       \/ \A i \in DOMAIN calls : calls[i].status = "fulfilled"
    /\ IF \E i \in DOMAIN calls : calls[i].status = "rejected"
       THEN /\ ppc' = "rejected"
            /\ UNCHANGED <<tally, returned>>
       ELSE /\ ppc' = "done"
            /\ tally' = Reduce(InitialAcc, [i \in DOMAIN calls |-> calls[i].result])
            /\ returned' = Summarise(tally', ToISOString(now))
    /\ UNCHANGED <<apiKey, collectedPosts, calls, requestLog, overtaken, now>>
    /\ UNCHANGED <<fhVars, storeVars, parseVars, obsVars, saveVars, fetchVars, uiVars>>

\* Time passes.
Tick ==
    /\ ppc \in {"collecting", "awaiting"}
    /\ now < MaxClock
    /\ now' = now + 1
    /\ UNCHANGED <<ppc, apiKey, collectedPosts, calls, requestLog, overtaken, tally,
                   returned>>
    /\ UNCHANGED <<fhVars, storeVars, parseVars, obsVars, saveVars, fetchVars, uiVars>>

(***************************************************************************)
(* refreshMeters (index.ts:8-25) and the concepts route (index.ts:63-101). *)
(* The value body is the JSON text it was given; the store keeps the       *)
(* metadata of a key as JSON too.                                          *)
(***************************************************************************)
\* The decimal numeral of a count below 100.
Decimal(n) == IF n < 10 THEN <<DigitChars[n + 1]>> ELSE TwoDigits(n)

\* The string an inherited value turned into after n additions of 1.
GarbageText(n) ==
    <<"function Object() { [native code] }">> \o [i \in 1..n |-> "1"]

\* JSON.stringify of a value of the concept table: a count becomes its
\* numeral, a string stays a string.
JsonOfValue(v) ==
    IF v.isNum THEN [type |-> "number", text |-> Decimal(v.n)]
    ELSE [type |-> "string", text |-> GarbageText(v.n)]

\* JSON.parse of one member's value.
ValueOfJson(j) ==
    IF j.type = "number" THEN CountValue(DigitsValue(j.text))
    ELSE GarbageValue(Len(j.text) - 1)

\* index.ts:17: JSON.stringify(topConcepts): the members in the order of
\* the object's own keys.
JsonStringify(obj) ==
    LET entries == ObjectEntries(obj)
    IN  [i \in 1..Len(entries) |-> <<entries[i][1], JsonOfValue(entries[i][2])>>]

\* index.ts:92: JSON.parse(topConceptsJson): each member becomes an own
\* property, in the order of the text.
JsonParse(json) ==
    LET at(k) == CHOOSE i \in 1..Len(json) : json[i][1] = k
    IN  [keys |-> [i \in 1..Len(json) |-> json[i][1]],
         vals |-> [k \in {json[i][1] : i \in 1..Len(json)} |->
                     ValueOfJson(json[at(k)][2])]]

\* JSON has no NaN: JSON.stringify writes null for it.
JsonNull == [null |-> TRUE]
JsonOfNumber(x) == IF x.nan THEN JsonNull ELSE x

\* The metadata of a key as the store keeps it.
MetadataJson(m) ==
    [messageCount |-> m.messageCount,
     happinessAvg |-> JsonOfNumber(m.happinessAvg),
     sadnessAvg   |-> JsonOfNumber(m.sadnessAvg),
     angerAvg     |-> JsonOfNumber(m.angerAvg),
     fearAvg      |-> JsonOfNumber(m.fearAvg),
     surpriseAvg  |-> JsonOfNumber(m.surpriseAvg),
     disgustAvg   |-> JsonOfNumber(m.disgustAvg)]

\* index.ts:15: const { timestamp, topConcepts, ...sentiments } = data
SentimentsOf(data) ==
    [messageCount |-> data.messageCount,
     happinessAvg |-> data.happinessAvg,
     sadnessAvg   |-> data.sadnessAvg,
     angerAvg     |-> data.angerAvg,
     fearAvg      |-> data.fearAvg,
     surpriseAvg  |-> data.surpriseAvg,
     disgustAvg   |-> data.disgustAvg]

\* The same, the put made twice.
StoreWritesTwice(ret) ==
    IF ret = {} THEN <<>>
    ELSE LET data == CHOOSE d \in ret : TRUE
             w    == [key      |-> data.timestamp,
                      value    |-> JsonStringify(data.topConcepts),
                      metadata |-> SentimentsOf(data)]
         IN  <<w, w>>

\* index.ts:14-19: the puts refreshMeters makes for what updateMeters
\* returned: none for null, one for a summary.
StoreWrites(ret) ==
    IF ret = {} THEN <<>>
    ELSE LET data == CHOOSE d \in ret : TRUE
         IN  <<[key      |-> data.timestamp,
                value    |-> JsonStringify(data.topConcepts),
                metadata |-> SentimentsOf(data)]>>

RECURSIVE PutAll(_, _)
PutAll(store, writes) ==
    IF writes = <<>> THEN store
    ELSE PutAll(KvPut(store, Head(writes).key, Head(writes).value,
                      MetadataJson(Head(writes).metadata)),
                Tail(writes))

\* index.ts:12-22: updateMeters has returned; its result is stored or not.
Persist ==
    /\ ppc = "done"
    /\ ppc' = "finished"
    /\ LET writes == StoreWrites(returned)
       IN  /\ kv' = PutAll(kv, writes)
           /\ putLog' = putLog \o [i \in 1..Len(writes) |-> writes[i].key]
    /\ UNCHANGED <<apiKey, collectedPosts, calls, requestLog, overtaken, tally,
                   returned, now>>
    /\ UNCHANGED <<qpc, qStart, qEnd, qArgs, startIso, endIso, prefixes,
                   prefixIdx, cursor, results, listLog>>
    /\ UNCHANGED <<fhVars, parseVars, obsVars, fetchVars, uiVars>>

\* index.ts:82-97: the concepts stored for a timestamp: {} when the key has
\* no value, else the parsed mapping.
ConceptsRead(store, timestamp) ==
    IF timestamp \notin DOMAIN store THEN {}
    ELSE {JsonParse(store[timestamp].value)}

\* Nothing has been stored by refreshMeters.
SaveInit == putLog = <<>>

(***************************************************************************)
(* The fetch handler (index.ts:37-119).  A Response is its status, whether *)
(* it carries Access-Control-Allow-Origin: *, its Content-Type and body.   *)
(***************************************************************************)
RECURSIVE ScanPrefix(_, _, _, _, _, _)
\* part_000:159-184: the do-while loop over the pages of one prefix.
ScanPrefix(store, prefix, cur, n, sIso, eIso) ==
    LET page == KvList(store, prefix, cur, n)
    IN  PageRecords(page.keys, sIso, eIso)
        \o (IF page.list_complete THEN <<>>
            ELSE ScanPrefix(store, prefix, page.cursor, n, sIso, eIso))

\* part_000:149-190: getHistoricalMeters run to its end against a store
\* that answers every list request with pages of n keys at most.
GetHistoricalMeters(store, start, end, n) ==
    LET g == GenerateHourPrefixes(start, end)
    IN  SortResults(Concat([i \in 1..Len(g.prefixes) |->
            ScanPrefix(store, g.prefixes[i], NoCursor, n,
                       ToISOString(start), ToISOString(end))]))

\* The number of list requests that scan issues.
RECURSIVE ListRequests(_, _, _, _)
ListRequests(store, prefix, cur, n) ==
    LET page == KvList(store, prefix, cur, n)
    IN  1 + (IF page.list_complete THEN 0
             ELSE ListRequests(store, prefix, page.cursor, n))

\* A completion together with the store operations issued on the way.
WithReads(completion, reads) == ("reads" :> reads) @@ completion

\* The headers object written out at index.ts:58-61, 72-75, 86-89, 95-98
\* and 111-114.
JsonResponse(status, body) ==
    [status |-> status, cors |-> TRUE, contentType |-> "application/json",
     body |-> body]

ErrorBody(message) == [kind |-> "error", value |-> message]

\* index.ts:45-62: the meters route.  A list request that fails rejects
\* the await.
ServeMeters(store, req) ==
    LET start == req.at - MetersWindow
        g     == GenerateHourPrefixes(start, req.at)
    IN  IF req.fault = "store"
        THEN WithReads(Throw(<<"Error: KV LIST failed">>), 1)
        ELSE WithReads(
                 Return(JsonResponse(200,
                     [kind  |-> "meters",
                      value |-> GetHistoricalMeters(store, start, req.at, MaxPage)])),
                 Len(Concat([i \in 1..Len(g.prefixes) |->
                        [k \in 1..ListRequests(store, g.prefixes[i], NoCursor, MaxPage)
                           |-> i]])))

\* The same, an absent entry answered with an empty mapping.
ServeConceptsEmptyMapping(store, req) ==
    IF req.timestamp = {} \/ req.timestamp = {<<>>}
    THEN WithReads(Return(JsonResponse(400, ErrorBody("Missing timestamp parameter"))), 0)
    ELSE LET timestamp == CHOOSE t \in req.timestamp : TRUE
         IN  IF req.fault = "store"
             THEN WithReads(Throw(<<"Error: KV GET failed">>), 1)
             ELSE IF timestamp \notin DOMAIN store
             THEN WithReads(Return(JsonResponse(200,
                      [kind |-> "concepts", value |-> <<>>])), 1)
             ELSE IF req.fault = "decode"
             THEN WithReads(Throw(<<"SyntaxError: Unexpected token">>), 1)
             ELSE WithReads(Return(JsonResponse(200,
                      [kind  |-> "concepts",
                       value |-> JsonStringify(JsonParse(store[timestamp].value))])), 1)

\* index.ts:63-101: the concepts route.  searchParams.get gives null for
\* an absent parameter and "" for an empty one; both are falsy.  get gives
\* null for an absent key.  A value that is no JSON makes JSON.parse throw.
ServeConcepts(store, req) ==
    IF req.timestamp = {} \/ req.timestamp = {<<>>}
    THEN WithReads(Return(JsonResponse(400, ErrorBody("Missing timestamp parameter"))), 0)
    ELSE LET timestamp == CHOOSE t \in req.timestamp : TRUE
         IN  IF req.fault = "store"
             THEN WithReads(Throw(<<"Error: KV GET failed">>), 1)
             ELSE IF timestamp \notin DOMAIN store
             THEN WithReads(Return(JsonResponse(404,
                      ErrorBody("No data found for timestamp"))), 1)
             ELSE IF req.fault = "decode"
             THEN WithReads(Throw(<<"SyntaxError: Unexpected token">>), 1)
             ELSE WithReads(Return(JsonResponse(200,
                      [kind  |-> "concepts",
                       value |-> JsonStringify(JsonParse(store[timestamp].value))])), 1)

\* index.ts:45-105: the body of the handler's try block.
FetchBody(store, req) ==
    IF StartsWith(req.route, <<"/api/meters">>) THEN ServeMeters(store, req)
    ELSE IF StartsWith(req.route, <<"/api/concepts">>) THEN ServeConcepts(store, req)
    ELSE WithReads(Return([status |-> 404, cors |-> FALSE, contentType |-> "",
                           body |-> [kind |-> "null", value |-> <<>>]]), 0)

\* The same without the catch of index.ts:106-117: the handler rejects.
HandleFetchUncaught(store, req) ==
    LET body == FetchBody(store, req)
    IN  IF body.thrown
        THEN [response |-> [status |-> 0, cors |-> FALSE, contentType |-> "",
                            body |-> [kind |-> "rejected", value |-> <<>>]],
              reads |-> body.reads]
        ELSE [response |-> body.value, reads |-> body.reads]

\* index.ts:37-119: the fetch handler.
HandleFetch(store, req) ==
    LET body == FetchBody(store, req)
    IN  IF body.thrown
        THEN [response |-> JsonResponse(500, ErrorBody("Uncaught exception")),
              reads |-> body.reads]
        ELSE [response |-> body.value, reads |-> body.reads]

\* The requests of the model: a path, the timestamp parameter ({} when
\* absent), the instant of the request, and what fails while it is served:
\* nothing, a store operation, or the decoding of the value read.
Requests ==
    [route     : { <<"/api/meters">>, <<"/api/meters", "/latest">>,
                   <<"/api/concepts">>, <<"/">>, <<"/api/other">> },
     timestamp : {{}, {<<>>}} \cup {{ToISOString(t)} : t \in {0, MaxTime}},
     at        : {t \in Times : t >= MetersWindow},
     fault     : {"none", "store", "decode"}]

NoRequest == [route |-> <<>>, timestamp |-> {}, at |-> 0, fault |-> "none"]
NotResponded ==
    [status |-> 0, cors |-> FALSE, contentType |-> "",
     body |-> [kind |-> "none", value |-> <<>>]]

\* The summary refreshMeters stores for a run that ended at instant t with
\* the one reply given.
SampleSummary(t, content) ==
    Summarise(Reduce(InitialAcc, <<AnalyzeSettle(Response("content", content)).value>>),
              ToISOString(t))

RECURSIVE StoreOf(_)
\* The store after the runs that ended at the instants of S.
StoreOf(S) ==
    IF S = {} THEN <<>>
    ELSE LET t == CHOOSE x \in S : \A o \in S : x >= o
         IN  PutAll(StoreOf(S \ {t}),
                    StoreWrites(SampleSummary(t, IF t % 2 = 0 THEN ReplyExample
                                                 ELSE ReplyFour)))

\* No request has been served.
FetchIdle ==
    /\ request = NoRequest
    /\ responded = NotResponded
    /\ storeReads = 0

\* The store holds the entries of earlier runs.
FetchStoreInit ==
    /\ kv \in {StoreOf(S) : S \in {T \in SUBSET Times : Cardinality(T) <= 2}}
    /\ qpc = "idle"
    /\ qStart = 0
    /\ qEnd = 0
    /\ qArgs = [start |-> 0, end |-> 0]
    /\ startIso = <<>>
    /\ endIso = <<>>
    /\ prefixes = <<>>
    /\ prefixIdx = 0
    /\ cursor = NoCursor
    /\ results = <<>>
    /\ listLog = <<>>

\* index.ts:37-119: one invocation of the handler, serving one request.
Fetch(req) ==
    /\ request = NoRequest
    /\ request' = req
    /\ LET served == HandleFetch(kv, req)
       IN  /\ responded' = served.response
           /\ storeReads' = served.reads
    /\ UNCHANGED <<storeVars, fhVars, pipeVars, parseVars, obsVars, saveVars, uiVars>>

(***************************************************************************)
(* The front end's word cloud (App.tsx:85-122).                            *)
(***************************************************************************)
\* App.tsx:97-100: Object.entries(concepts).map(([text, value]) => ...).
WordsOf(concepts) ==
    LET entries == ObjectEntries(concepts)
    IN  [i \in 1..Len(entries) |-> [text |-> entries[i][1], value |-> entries[i][2]]]

\* App.tsx:87-89: the worker's answer to GET /api/concepts?timestamp=...
ConceptsResponse(store, timestamp, fault) ==
    HandleFetch(store, [route |-> <<"/api/concepts">>, timestamp |-> {timestamp},
                        at |-> MetersWindow, fault |-> fault]).response

\* App.tsx:90-106: what fetchConcepts leaves in wordCloudData once its
\* request has ended: by a network error (the catch), by an answer that
\* is not ok (nothing is set), or by an ok answer.
AfterConcepts(current, store, timestamp, outcome) ==
    IF outcome = "network" THEN <<>>
    ELSE LET answer == ConceptsResponse(store, timestamp,
                                        IF outcome = "ok" THEN "none" ELSE "store")
         IN  IF answer.status \notin 200..299 THEN current
             ELSE WordsOf(JsonParse(answer.body.value))

Outcomes3 == {"ok", "notok", "network"}

\* Nothing has been hovered.
UiIdle ==
    /\ hoveredTimestamp = {}
    /\ conceptFetchTimeout = 0
    /\ hoverLog = <<>>
    /\ conceptRequests = <<>>
    /\ wordCloudData = <<>>

\* App.tsx:109-122: handleBarHover on a bar of the chart (the bars are the
\* entries of the store): the hover is shown at once, a pending timer is
\* cleared and a new one of 150 ms is set.
HandleBarHover(timestamp) ==
    /\ Len(hoverLog) < MaxHovers
    /\ timestamp \in DOMAIN kv
    /\ hoveredTimestamp' = {timestamp}
    /\ hoverLog' = [i \in 1..(Len(hoverLog) + 1) |->
                      IF i <= Len(hoverLog)
                      THEN [hoverLog[i] EXCEPT !.superseded =
                               @ \/ (i = conceptFetchTimeout)]
                      ELSE [timestamp |-> timestamp, superseded |-> FALSE]]
    /\ conceptFetchTimeout' = Len(hoverLog) + 1
    /\ UNCHANGED <<conceptRequests, wordCloudData>>
    /\ UNCHANGED <<storeVars, fhVars, pipeVars, parseVars, obsVars, saveVars, fetchVars>>

\* App.tsx:119-121, 85-89: 150 ms have passed with no further hover: the
\* timer fires and fetchConcepts sends its request.
DebounceElapsed ==
    /\ conceptFetchTimeout # 0
    /\ conceptRequests' = Append(conceptRequests,
          [hover |-> conceptFetchTimeout,
           timestamp |-> hoverLog[conceptFetchTimeout].timestamp,
           status |-> "pending"])
    /\ conceptFetchTimeout' = 0
    /\ UNCHANGED <<hoveredTimestamp, hoverLog, wordCloudData>>
    /\ UNCHANGED <<storeVars, fhVars, pipeVars, parseVars, obsVars, saveVars, fetchVars>>

\* App.tsx:90-106: the request of call i ends, in whatever order the
\* network has it.
ConceptsArrive(i, outcome) ==
    /\ i \in DOMAIN conceptRequests
    /\ conceptRequests[i].status = "pending"
    /\ conceptRequests' = [conceptRequests EXCEPT ![i].status = outcome]
    /\ wordCloudData' = AfterConcepts(wordCloudData, kv,
                                      conceptRequests[i].timestamp, outcome)
    /\ UNCHANGED <<hoveredTimestamp, conceptFetchTimeout, hoverLog>>
    /\ UNCHANGED <<storeVars, fhVars, pipeVars, parseVars, obsVars, saveVars, fetchVars>>

(***************************************************************************)
(* parseSentimentResponse on its own (index.ts:200-241), followed by the   *)
(* loop body of the aggregator (part_000:57-79) on its outcome.  A reply   *)
(* is described by its shape: a literal line with what surrounds it, or    *)
(* the lines of the reply format in some order, one of them possibly left  *)
(* out, one score possibly out of contract.                                *)
(***************************************************************************)
\* The scores of the prompt's example (index.ts:136-141).
ExampleScores == <<"7", "1", "0", "3", "5", "4">>

\* Scores outside the contract "0, 1, ..., 9" (index.ts:148), with the
\* number each one denotes.
OddScores ==
    { [text |-> <<"1", "2">>, class |-> "greater", value |-> Rat(12, 1)],
      [text |-> <<"4", "0">>, class |-> "greater", value |-> Rat(40, 1)],
      [text |-> <<"7", ".", "5">>, class |-> "fractional", value |-> Rat(15, 2)],
      [text |-> <<"0", ".", "2", "5">>, class |-> "fractional", value |-> Rat(1, 4)],
      [text |-> <<"-", "3">>, class |-> "negative", value |-> NaN],
      [text |-> <<"-", "0", ".", "5">>, class |-> "negative", value |-> NaN] }

NoOddScore == [text |-> <<>>, class |-> "none", value |-> NaN]

\* Lines 1..6 are the score lines, line 7 the concepts line.
LineOrders ==
    { <<1, 2, 3, 4, 5, 6, 7>>, <<7, 6, 5, 4, 3, 2, 1>>, <<4, 7, 1, 6, 2, 5, 3>> }

LiteralShapes ==
    [kind : {"literal"}, word : {"NO SENTIMENT", "no sentiment"},
     before : {<<>>, <<" ">>, <<"\n">>},
     after : {<<>>, <<"\n">>, <<" ", "\n">>, <<".">>},
     order : {<<>>}, missing : {0}, oddAt : {0}, odd : {NoOddScore}]

LinesShapes ==
    [kind : {"lines"}, word : {""}, before : {<<>>}, after : {<<>>},
     order : LineOrders, missing : 0..7, oddAt : {0}, odd : {NoOddScore}]
    \cup
    [kind : {"lines"}, word : {""}, before : {<<>>}, after : {<<>>},
     order : LineOrders, missing : {0}, oddAt : {1, 6}, odd : OddScores]

ReplyShapes == LiteralShapes \cup LinesShapes

NoReply ==
    [kind |-> "none", word |-> "", before |-> <<>>, after |-> <<>>,
     order |-> <<>>, missing |-> 0, oddAt |-> 0, odd |-> NoOddScore]

\* Line k of a reply of the given shape.
LineOf(shape, k) ==
    IF k = 7 THEN <<"concepts:", "peace", ",", "ukraine war", "\n">>
    ELSE <<ScoreLabels[k]>>
         \o (IF k = shape.oddAt THEN shape.odd.text ELSE <<ExampleScores[k]>>)
         \o <<"\n">>

\* The text of a reply of the given shape.
ReplyText(shape) ==
    IF shape.kind = "literal"
    THEN shape.before \o <<shape.word>> \o shape.after
    ELSE LET kept == SelectSeq(shape.order, LAMBDA k : k # shape.missing)
         IN  Concat([i \in 1..Len(kept) |-> LineOf(shape, kept[i])])

\* No reply is being parsed.
ParserIdle ==
    /\ reply = NoReply
    /\ parsed = NoResult
    /\ counted = InitialAcc
    /\ rpc = "idle"

ParserInit ==
    /\ reply \in ReplyShapes
    /\ parsed = NoResult
    /\ counted = InitialAcc
    /\ rpc = "reply"

\* index.ts:194: parseSentimentResponse(content) on the reply.
ParseReply ==
    /\ rpc = "reply"
    /\ parsed' = ParseSentimentResponse(Str(ReplyText(reply))).value
    /\ rpc' = "parsed"
    /\ UNCHANGED <<reply, counted>>
    /\ UNCHANGED <<storeVars, fhVars, pipeVars, obsVars, saveVars, fetchVars, uiVars>>

\* part_000:57-79: the loop body on that outcome.
CountOutcome ==
    /\ rpc = "parsed"
    /\ counted' = ReduceStep(counted, parsed)
    /\ rpc' = "counted"
    /\ UNCHANGED <<reply, parsed>>
    /\ UNCHANGED <<storeVars, fhVars, pipeVars, obsVars, saveVars, fetchVars, uiVars>>

InitParser ==
    /\ StoreInit /\ FirehoseInit /\ PipelineInit /\ apiKey = <<>>
    /\ ParserInit /\ ObserveInit /\ SaveInit /\ FetchIdle /\ UiIdle

ParserNext ==
    \/ ParseReply
    \/ CountOutcome

SpecParser == InitParser /\ [][ParserNext]_vars

(***************************************************************************)
(* connectToFirehose on its own, for any options: an event limit, a        *)
(* duration, both or neither, and an onPost callback that may throw.  An   *)
(* onError callback is given.                                              *)
(***************************************************************************)
\* The eventLimit and durationMs a caller may pass; 0 is "not given".
EventLimits == {0, 2}
Durations == {0, 1000}

\* firehose-client.ts:20-30, 88-98: the state when connectToFirehose has
\* run the promise's executor: the timer is set when a duration is given,
\* the subscription is started.
ConnectInit ==
    /\ fhOptions \in [eventLimit : EventLimits, durationMs : Durations]
    /\ isClosed = FALSE
    /\ timeoutSet = (fhOptions.durationMs # 0)
    /\ eventCount = 0
    /\ wsState = "open"
    /\ resolveCount = 0
    /\ closeCalls = 0
    /\ onErrorCalls = 0
    /\ onPostCalls = 0
    /\ eventsSeen = 0

\* The same, the error reported and collection stopped.
CatchErrorAndStop ==
    /\ onErrorCalls' = onErrorCalls + 1
    /\ Cleanup(wsState)

\* firehose-client.ts:62-66: the catch of the handler; options.onError is
\* called with the error and nothing else is touched.
CatchError ==
    /\ onErrorCalls' = onErrorCalls + 1
    /\ UNCHANGED <<isClosed, timeoutSet, closeCalls, resolveCount, wsState>>

\* firehose-client.ts:46-67: the handler of one created post.  Reading a
\* malformed event throws before the count; an event over the limit calls
\* cleanup and returns; any other is handed to onPost, which may throw or
\* return a promise that rejects.
StreamCreate(malformed, throws) ==
    /\ wsState \in {"open", "closing"}
    /\ eventsSeen < MaxEvents
    /\ eventsSeen' = eventsSeen + 1
    /\ IF malformed
       THEN /\ malformedSeen' = malformedSeen + 1
            /\ CatchError
            /\ UNCHANGED <<eventCount, onPostCalls, onPostThrows, lastPostAfter>>
       ELSE /\ eventCount' = eventCount + 1
            /\ UNCHANGED malformedSeen
            /\ IF OverLimit(eventCount + 1)
               THEN /\ Cleanup(wsState)
                    /\ UNCHANGED <<onPostCalls, onErrorCalls, onPostThrows,
                                   lastPostAfter>>
               ELSE /\ onPostCalls' = onPostCalls + 1
                    /\ lastPostAfter' = [errors |-> onErrorCalls,
                                         throws |-> onPostThrows]
                    /\ IF throws
                       THEN /\ onPostThrows' = onPostThrows + 1
                            /\ CatchError
                       ELSE UNCHANGED <<onPostThrows, onErrorCalls, isClosed,
                                        timeoutSet, closeCalls, resolveCount,
                                        wsState>>
    /\ UNCHANGED <<fhOptions, storeVars, pipeVars, parseVars, saveVars, fetchVars, uiVars>>

\* firehose-client.ts:88-95: the duration timer fires.
DurationElapsed ==
    /\ timeoutSet
    /\ Cleanup(wsState)
    /\ UNCHANGED <<fhOptions, eventCount, onErrorCalls, onPostCalls, eventsSeen>>
    /\ UNCHANGED <<storeVars, pipeVars, parseVars, obsVars, saveVars, fetchVars, uiVars>>

InitFirehose ==
    /\ StoreInit /\ PipelineInit /\ apiKey = <<>> /\ ParserIdle
    /\ ConnectInit /\ ObserveInit /\ SaveInit /\ FetchIdle /\ UiIdle

FirehoseNext ==
    \/ \E malformed \in BOOLEAN, throws \in BOOLEAN : StreamCreate(malformed, throws)
    \/ OnTransportError
    \/ OnClose
    \/ DurationElapsed

SpecFirehose == InitFirehose /\ [][FirehoseNext]_vars

(***************************************************************************)
(* One run of the pipeline: collection, fan-out, join and reduction.       *)
(***************************************************************************)
InitPipeline ==
    StoreInit /\ FirehoseInit /\ PipelineInit /\ ParserIdle /\ ObserveInit /\ SaveInit /\ FetchIdle /\ UiIdle

PipelineNext ==
    \/ \E malformed \in BOOLEAN : OnCreate(malformed)
    \/ OnTransportError
    \/ OnClose
    \/ FanOut
    \/ \E i \in DOMAIN calls, r \in Responses : CallSettle(i, r)
    \/ Join
    \/ Tick

SpecPipeline == InitPipeline /\ [][PipelineNext]_vars

(***************************************************************************)
(* One run of refreshMeters: the run of updateMeters, then the store.      *)
(***************************************************************************)
\* firehose-client.ts:20-30, 88-98 as updateMeters calls it.
RefreshFirehoseInit ==
    /\ fhOptions = [eventLimit |-> RefreshEventLimit, durationMs |-> 0]
    /\ isClosed = FALSE
    /\ timeoutSet = FALSE
    /\ eventCount = 0
    /\ wsState = "open"
    /\ resolveCount = 0
    /\ closeCalls = 0
    /\ onErrorCalls = 0
    /\ onPostCalls = 0
    /\ eventsSeen = 0

InitRefresh ==
    /\ StoreInit /\ RefreshFirehoseInit /\ PipelineInit
    /\ ParserIdle /\ ObserveInit /\ SaveInit /\ FetchIdle /\ UiIdle

RefreshNext ==
    \/ \E malformed \in BOOLEAN : OnCreate(malformed)
    \/ OnTransportError
    \/ OnClose
    \/ FanOut
    \/ \E i \in DOMAIN calls, r \in Responses : CallSettle(i, r)
    \/ Join
    \/ Persist
    \/ Tick

SpecRefresh == InitRefresh /\ [][RefreshNext]_vars

\* The answers followed when only the end of a run matters: a reply that is
\* counted, one that is not, and a failed request.
AnswersOfRun ==
    { Response("content", ReplyExample), Response("content", ReplyNoSentiment),
      Response("status", ReplyNull) }

RunNext ==
    \/ \E malformed \in BOOLEAN : OnCreate(malformed)
    \/ OnTransportError
    \/ OnClose
    \/ FanOut
    \/ \E i \in DOMAIN calls, r \in AnswersOfRun : CallSettle(i, r)
    \/ Join

\* A run with what the event loop and the classifier owe it: the
\* continuation of a resolved await runs (FanOut after part_000:24, Join
\* after part_000:51), and every classification call is answered.  The
\* stream owes nothing: Jetstream may deliver, stay silent or close.
SpecRunFair ==
    /\ InitRefresh
    /\ [][RunNext]_vars
    /\ WF_vars(FanOut)
    /\ WF_vars(\E i \in DOMAIN calls, r \in AnswersOfRun : CallSettle(i, r))
    /\ WF_vars(Join)

(***************************************************************************)
(* The fetch handler on its own, over stores earlier runs have written.    *)
(***************************************************************************)
InitFetch ==
    /\ FetchStoreInit /\ FirehoseInit /\ PipelineInit /\ apiKey = <<>>
    /\ ParserIdle /\ ObserveInit /\ SaveInit /\ FetchIdle /\ UiIdle

FetchNext == \E req \in Requests : Fetch(req)

SpecFetch == InitFetch /\ [][FetchNext]_vars

(***************************************************************************)
(* The front end on its own, over stores earlier runs have written.        *)
(***************************************************************************)
\* The chart has two bars, of runs with different concepts.
UiStoreInit ==
    /\ kv = StoreOf({0, 1})
    /\ qpc = "idle"
    /\ qStart = 0
    /\ qEnd = 0
    /\ qArgs = [start |-> 0, end |-> 0]
    /\ startIso = <<>>
    /\ endIso = <<>>
    /\ prefixes = <<>>
    /\ prefixIdx = 0
    /\ cursor = NoCursor
    /\ results = <<>>
    /\ listLog = <<>>

InitUi ==
    /\ UiStoreInit /\ FirehoseInit /\ PipelineInit /\ apiKey = <<>>
    /\ ParserIdle /\ ObserveInit /\ SaveInit /\ FetchIdle /\ UiIdle

UiNext ==
    \/ \E timestamp \in DOMAIN kv : HandleBarHover(timestamp)
    \/ DebounceElapsed
    \/ \E i \in 1..MaxHovers, outcome \in Outcomes3 : ConceptsArrive(i, outcome)

SpecUi == InitUi /\ [][UiNext]_vars

(***************************************************************************)
(* The store on its own: puts, then a range query.                         *)
(***************************************************************************)
InitStore ==
    /\ StoreInit /\ FirehoseInit /\ PipelineInit /\ apiKey = <<>>
    /\ ParserIdle /\ ObserveInit /\ SaveInit /\ FetchIdle /\ UiIdle

StoreNext ==
    \/ \E t \in Times, m \in SampleSentiments : StorePut(t, m)
    \/ \E s \in Times, e \in Times : QueryBegin(s, e)
    \/ \E n \in 1..MaxPage : QueryListPage(n)

SpecStore == InitStore /\ [][StoreNext]_vars

(***************************************************************************)
(* Claims about the aggregation and the classifier.                        *)
(***************************************************************************)
\* The outcomes of the batch, in batch order (when every call has settled).
Outcomes == [i \in DOMAIN calls |-> calls[i].result]

IsSuccess(r) == "error" \notin DOMAIN r /\ "pending" \notin DOMAIN r

SuccessOutcomes == SelectSeq(Outcomes, IsSuccess)

RECURSIVE SumHappiness(_)
SumHappiness(rs) ==
    IF rs = <<>> THEN Num(0) ELSE NumAdd(SumHappiness(Tail(rs)), Head(rs).happiness)
RECURSIVE SumSadness(_)
SumSadness(rs) ==
    IF rs = <<>> THEN Num(0) ELSE NumAdd(SumSadness(Tail(rs)), Head(rs).sadness)
RECURSIVE SumAnger(_)
SumAnger(rs) ==
    IF rs = <<>> THEN Num(0) ELSE NumAdd(SumAnger(Tail(rs)), Head(rs).anger)
RECURSIVE SumFear(_)
SumFear(rs) ==
    IF rs = <<>> THEN Num(0) ELSE NumAdd(SumFear(Tail(rs)), Head(rs).fear)
RECURSIVE SumSurprise(_)
SumSurprise(rs) ==
    IF rs = <<>> THEN Num(0) ELSE NumAdd(SumSurprise(Tail(rs)), Head(rs).surprise)
RECURSIVE SumDisgust(_)
SumDisgust(rs) ==
    IF rs = <<>> THEN Num(0) ELSE NumAdd(SumDisgust(Tail(rs)), Head(rs).disgust)

\* The lower-cased concepts of the Success outcomes, in the order seen.
SeenConcepts ==
    Concat([i \in 1..Len(SuccessOutcomes) |->
               [k \in 1..Len(SuccessOutcomes[i].concepts) |->
                   ToLowerCase(SuccessOutcomes[i].concepts[k])]])

DistinctConcepts == {SeenConcepts[k] : k \in DOMAIN SeenConcepts}

Occurrences(c) == Cardinality({k \in DOMAIN SeenConcepts : SeenConcepts[k] = c})

FirstSeen(c) == CHOOSE k \in DOMAIN SeenConcepts :
                    SeenConcepts[k] = c /\ \A j \in 1..(k - 1) : SeenConcepts[j] # c

\* C3: a run in which no outcome is a Success returns null.
C3_NoSuccessReturnsNull ==
    (ppc = "done" /\ \A i \in DOMAIN calls : ~IsSuccess(calls[i].result))
        => returned = {}

\* A finished run whose batch holds a NO SENTIMENT outcome and a failure
\* of another kind, and nothing else.
C3_Witness ==
    /\ ppc = "done"
    /\ \A i \in DOMAIN calls : ~IsSuccess(calls[i].result)
    /\ \E i \in DOMAIN calls : calls[i].result.error = <<"NO SENTIMENT">>
    /\ \E i \in DOMAIN calls : calls[i].result.error # <<"NO SENTIMENT">>
    /\ returned = {}

\* C4: with n >= 1 Success outcomes the summary's messageCount is n and
\* each average is the sum of that score over the Success outcomes alone,
\* divided by n: the failures of the batch, wherever they stand, change
\* nothing.
C4_AveragesOverSuccesses ==
    (ppc = "done" /\ Len(SuccessOutcomes) >= 1) =>
        /\ Cardinality(returned) = 1
        /\ \A d \in returned :
              LET n == Len(SuccessOutcomes)
              IN  /\ d.messageCount = n
                  /\ d.happinessAvg = NumDivide(SumHappiness(SuccessOutcomes), n)
                  /\ d.sadnessAvg = NumDivide(SumSadness(SuccessOutcomes), n)
                  /\ d.angerAvg = NumDivide(SumAnger(SuccessOutcomes), n)
                  /\ d.fearAvg = NumDivide(SumFear(SuccessOutcomes), n)
                  /\ d.surpriseAvg = NumDivide(SumSurprise(SuccessOutcomes), n)
                  /\ d.disgustAvg = NumDivide(SumDisgust(SuccessOutcomes), n)

\* A finished run of a failure followed by two different Success outcomes
\* whose happiness average is no whole number.
C4_Witness ==
    /\ ppc = "done"
    /\ Len(calls) = 3
    /\ ~IsSuccess(calls[1].result)
    /\ IsSuccess(calls[2].result)
    /\ IsSuccess(calls[3].result)
    /\ \E d \in returned : d.messageCount = 2 /\ d.happinessAvg.den = 2

\* C5 (as claimed): topConcepts has at most TopConceptLimit entries, and
\* when the distinct lower-cased concepts are that many at most, each is a
\* key whose value is its number of occurrences.
C5_TopConceptsExact ==
    ppc = "done" =>
        \A d \in returned :
            /\ Len(d.topConcepts.keys) <= TopConceptLimit
            /\ Cardinality(DistinctConcepts) <= TopConceptLimit =>
                  \A c \in DistinctConcepts :
                      /\ c \in DOMAIN d.topConcepts.vals
                      /\ d.topConcepts.vals[c] = CountValue(Occurrences(c))

\* The concepts, first seen first, sorted by descending count, ties kept in
\* first-seen order.
RankBefore(c1, c2) ==
    \/ Occurrences(c1) > Occurrences(c2)
    \/ Occurrences(c1) = Occurrences(c2) /\ FirstSeen(c1) < FirstSeen(c2)

ExpectedTop ==
    {c \in DistinctConcepts :
        Cardinality({o \in DistinctConcepts : RankBefore(o, c)}) < TopConceptLimit}

\* C6 (as claimed): with more than TopConceptLimit distinct concepts, the
\* ones kept are those of highest count, ties going to the concept first
\* seen earlier, whatever the concept strings are.
C6_TopByCountThenFirstSeen ==
    (ppc = "done" /\ Cardinality(DistinctConcepts) > TopConceptLimit) =>
        \A d \in returned : DOMAIN d.topConcepts.vals = ExpectedTop

RECURSIVE SumCounts(_, _)
SumCounts(obj, ks) ==
    IF ks = <<>> THEN 0
    ELSE (IF obj.vals[Head(ks)].isNum THEN obj.vals[Head(ks)].n ELSE 0)
         + SumCounts(obj, Tail(ks))

\* C7 (as claimed): the counts of topConcepts add up to 3 * messageCount at
\* most.
C7_ConceptSumBounded ==
    ppc = "done" =>
        \A d \in returned :
            SumCounts(d.topConcepts, d.topConcepts.keys) <= 3 * d.messageCount

\* C8: in a run every buffered post is handed to analyzeSentiment exactly
\* once and in batch order, every request is out before any call is
\* awaited, the calls are as many as the posts and never more than the
\* event limit, and no outcome aborts the run: updateMeters never rejects
\* and the reduction accounts for every outcome.
C8_FanOutJoin ==
    /\ ppc # "rejected"
    /\ ppc = "collecting" => calls = <<>>
    /\ ppc \in {"awaiting", "done"} =>
          /\ Len(calls) = Len(collectedPosts)
          /\ \A i \in DOMAIN calls : calls[i].text = collectedPosts[i]
          /\ \A i \in DOMAIN calls : \A j \in DOMAIN calls :
                i # j => calls[i].text # calls[j].text
          /\ Len(calls) <= fhOptions.eventLimit
          /\ apiKey # <<>> => requestLog = collectedPosts
    /\ ppc = "done" =>
          /\ tally.messageCount = Len(SuccessOutcomes)
          /\ tally.messageCount + tally.failureCount + tally.noSentimentCount
                = Len(calls)
          /\ Len(SuccessOutcomes) >= 1 => returned # {}

\* A finished run of a full batch in which a call settled before an
\* earlier one, one request failed, and a summary was still returned.
C8_Witness ==
    /\ ppc = "done"
    /\ Len(calls) = fhOptions.eventLimit
    /\ overtaken
    /\ \E i \in DOMAIN calls : calls[i].response.kind = "reject"
    /\ returned # {}

\* The calls that took one of the failure paths of index.ts:160-197 and
\* 237-240.
TookFailurePath(c) ==
    \/ apiKey = <<>>
    \/ c.response.kind \in {"reject", "status", "badjson", "nochoices"}
    \/ c.response.kind = "content" /\ ~c.response.content.isString

\* C9: no call of analyzeSentiment rejects; a call without a key, with a
\* failed request, a non-success status, a body that is no JSON or lacks
\* choices[0].message, or a content that makes the parser throw, is
\* fulfilled with a value that has an error field holding a reason.
C9_NeverRejects ==
    \A i \in DOMAIN calls :
        /\ calls[i].status # "rejected"
        /\ (calls[i].status = "fulfilled" /\ TookFailurePath(calls[i])) =>
              /\ "error" \in DOMAIN calls[i].result
              /\ calls[i].result.error # <<>>

\* A finished run whose three calls met a failed request, a body that is
\* no JSON and a content that is no string.
C9_Witness ==
    /\ ppc = "done"
    /\ \E i \in DOMAIN calls : calls[i].response.kind = "reject"
    /\ \E i \in DOMAIN calls : calls[i].response.kind = "badjson"
    /\ \E i \in DOMAIN calls :
          calls[i].response.kind = "content" /\ ~calls[i].response.content.isString

\* C10: without a key every call is fulfilled with the failure at once and
\* no request is sent; with a key each call sends exactly one request.
C10_OneRequestPerCall ==
    ppc \in {"awaiting", "done"} =>
        IF apiKey = <<>>
        THEN /\ requestLog = <<>>
             /\ \A i \in DOMAIN calls :
                   /\ calls[i].status = "fulfilled"
                   /\ calls[i].result = MissingKeyResult
        ELSE /\ Len(requestLog) = Len(calls)
             /\ \A i \in DOMAIN calls :
                   Cardinality({k \in DOMAIN requestLog :
                                   requestLog[k] = calls[i].text}) = 1

\* The fan-out over a full batch without a key: every call already
\* fulfilled, nothing sent.
C10_Witness ==
    /\ ppc = "awaiting"
    /\ apiKey = <<>>
    /\ Len(calls) = fhOptions.eventLimit
    /\ requestLog = <<>>

(***************************************************************************)
(* Claims about parseSentimentResponse.                                    *)
(***************************************************************************)
IsWhitespace(text) == \A i \in DOMAIN text : text[i] \in SpaceTokens

\* The reply is the literal NO SENTIMENT once the whitespace around it is
\* trimmed.
IsTrimmedNoSentiment(shape) ==
    /\ shape.kind = "literal"
    /\ shape.word = "NO SENTIMENT"
    /\ IsWhitespace(shape.before)
    /\ IsWhitespace(shape.after)

\* C11 (as claimed): a reply that is NO SENTIMENT once trimmed is a failure
\* whose reason is exactly "NO SENTIMENT" and the aggregator counts it as
\* no-sentiment, not as a failure; no other reply is counted as
\* no-sentiment.
C11_NoSentimentTrimmed ==
    rpc = "counted" =>
        IF IsTrimmedNoSentiment(reply)
        THEN /\ parsed = [error |-> <<"NO SENTIMENT">>]
             /\ counted.noSentimentCount = 1
             /\ counted.failureCount = 0
        ELSE counted.noSentimentCount = 0

\* C12: a reply that lacks one of the six score labels is a failure whose
\* reason is the whole reply, whichever label it is and whatever the order
\* of the other lines; it is never counted as a message.
C12_MissingLabelIsFailure ==
    (rpc \in {"parsed", "counted"} /\ reply.kind = "lines"
        /\ reply.missing \in 1..6) =>
        /\ parsed = [error |-> ReplyText(reply)]
        /\ rpc = "counted" =>
              /\ counted.messageCount = 0
              /\ counted.failureCount = 1
              /\ counted.happiness = Num(0)
              /\ counted.disgust = Num(0)

\* The reply without its disgust line, the other lines in reverse order,
\* parsed and counted.
C12_Witness ==
    /\ rpc = "counted"
    /\ reply.kind = "lines"
    /\ reply.missing = 6
    /\ reply.order = <<7, 6, 5, 4, 3, 2, 1>>
    /\ "error" \in DOMAIN parsed
    /\ counted.failureCount = 1

\* The score of line k in an outcome or in the sums.
ScoreField(r, k) ==
    CASE k = 1 -> r.happiness [] k = 2 -> r.sadness [] k = 3 -> r.anger
      [] k = 4 -> r.fear [] k = 5 -> r.surprise [] k = 6 -> r.disgust

C14_OnPostAtMostLimit ==
    fhOptions.eventLimit # 0 =>
        /\ onPostCalls <= fhOptions.eventLimit
        /\ onPostCalls = IF eventCount > fhOptions.eventLimit
                         THEN fhOptions.eventLimit ELSE eventCount

\* Two events arrived beyond a limit of two, the second of them after the
\* close had begun; onPost was invoked twice.
C14_Witness ==
    /\ fhOptions.eventLimit = 2
    /\ eventCount = 4
    /\ onPostCalls = 2

\* C15 (as claimed): once the number of events received has reached the
\* event limit the collector has stopped: the subscription is closed and
\* the promise resolved, with no further event, timer or remote close.
C15_StopsAtLimit ==
    (fhOptions.eventLimit # 0 /\ eventCount >= fhOptions.eventLimit) =>
        /\ isClosed
        /\ closeCalls = 1
        /\ resolveCount = 1

\* C16 (as claimed): a call with neither an event limit nor a duration is
\* reported as a violation of the caller's contract: onError has been
\* called once more than the faults of the stream account for.
C16_NoCeilingReported ==
    (fhOptions.eventLimit = 0 /\ fhOptions.durationMs = 0) =>
        onErrorCalls > onPostThrows + (eventsSeen - eventCount)

\* C17: each stop cause stops the collector (an event over the limit, the
\* timer no longer pending, the subscription no longer open), and however
\* the causes interleave the subscription is closed at most once, the
\* promise resolved exactly once, and no timer is left pending.
C17_StopsOnce ==
    /\ closeCalls <= 1
    /\ resolveCount <= 1
    /\ isClosed <=> resolveCount = 1
    /\ isClosed <=> closeCalls = 1
    /\ isClosed => ~timeoutSet
    /\ (fhOptions.eventLimit # 0 /\ eventCount > fhOptions.eventLimit) => isClosed
    /\ (fhOptions.durationMs # 0 /\ ~timeoutSet) => isClosed
    /\ wsState # "open" => isClosed

\* With both ceilings given: an event over the limit and the remote close
\* have both called cleanup while the timer was set.
C17_Witness ==
    /\ fhOptions.eventLimit # 0
    /\ fhOptions.durationMs # 0
    /\ eventCount > fhOptions.eventLimit
    /\ wsState = "closed"
    /\ closeCalls = 1
    /\ resolveCount = 1
    /\ ~timeoutSet

\* C18: every transport error and every exception of onPost is handed to
\* onError; the step that does so leaves the subscription, the promise and
\* the timer as they were, and events within the limit keep reaching
\* onPost whatever errors came before them.
C18_ErrorsDoNotStop ==
    /\ [](onErrorCalls = onPostThrows + (eventsSeen - eventCount))
    /\ [](onPostCalls = IF fhOptions.eventLimit # 0
                           /\ eventCount > fhOptions.eventLimit
                        THEN fhOptions.eventLimit ELSE eventCount)
    /\ [][onErrorCalls' # onErrorCalls =>
            /\ onErrorCalls' = onErrorCalls + 1
            /\ isClosed' = isClosed
            /\ wsState' = wsState
            /\ resolveCount' = resolveCount
            /\ closeCalls' = closeCalls
            /\ timeoutSet' = timeoutSet]_vars

\* A transport error and a throwing onPost came first, then a post was
\* handed to onPost; the subscription is open and the promise pending.
C18_Witness ==
    /\ lastPostAfter = [errors |-> 2, throws |-> 1]
    /\ malformedSeen = 0
    /\ onErrorCalls = 2
    /\ wsState = "open"
    /\ ~isClosed
    /\ resolveCount = 0

(***************************************************************************)
(* Claims about refreshMeters and the stored entry.                        *)
(***************************************************************************)
\* C19: a run of refreshMeters makes exactly one put, under the summary's
\* timestamp, when updateMeters returned a summary, and none when it
\* returned null; nothing is written before the run has its result.
C19_OneWritePerSummary ==
    /\ ppc # "finished" => (putLog = <<>> /\ kv = <<>>)
    /\ ppc = "finished" =>
          IF returned = {}
          THEN putLog = <<>> /\ kv = <<>>
          ELSE /\ Len(putLog) = 1
               /\ DOMAIN kv = {putLog[1]}
               /\ \A d \in returned : putLog[1] = d.timestamp

\* A finished run whose batch held a failure and a Success: one put.
C19_Witness ==
    /\ ppc = "finished"
    /\ returned # {}
    /\ \E i \in DOMAIN calls : "error" \in DOMAIN calls[i].result
    /\ Len(putLog) = 1
    /\ putLog[1] \in DOMAIN kv

\* The record a range query is to return for a summary.
MeterOf(d) ==
    [timestamp    |-> d.timestamp,
     messageCount |-> d.messageCount,
     happinessAvg |-> d.happinessAvg,
     sadnessAvg   |-> d.sadnessAvg,
     angerAvg     |-> d.angerAvg,
     fearAvg      |-> d.fearAvg,
     surpriseAvg  |-> d.surpriseAvg,
     disgustAvg   |-> d.disgustAvg]

\* C20 (as claimed): the entry written for a summary has the summary's
\* timestamp as key, metadata holding exactly messageCount and the six
\* averages, and the JSON text of topConcepts as value; reading the
\* concepts of that timestamp gives the mapping back, and a range query
\* over that timestamp gives the seven numbers back with the timestamp.
C20_StoredEntryRoundTrip ==
    ppc = "finished" =>
        \A d \in returned :
            /\ d.timestamp \in DOMAIN kv
            /\ kv[d.timestamp].value = JsonStringify(d.topConcepts)
            /\ \A m \in kv[d.timestamp].metadata :
                  /\ DOMAIN m = DOMAIN MeterOf(d) \ {"timestamp"}
                  /\ \A f \in DOMAIN m : m[f] = d[f]
            /\ Cardinality(kv[d.timestamp].metadata) = 1
            /\ \A c \in ConceptsRead(kv, d.timestamp) :
                  /\ c.vals = d.topConcepts.vals
                  /\ ObjectEntries(c) = ObjectEntries(d.topConcepts)
            /\ ConceptsRead(kv, d.timestamp) # {}
            /\ PageRecords(KvList(kv, Substring0(d.timestamp, 13), NoCursor,
                                  MaxPage).keys,
                           d.timestamp, d.timestamp) = <<MeterOf(d)>>

(***************************************************************************)
(* The fetch handler: C21 to C23.                                          *)
(***************************************************************************)
Served == request # NoRequest
OnMeters == Served /\ StartsWith(request.route, <<"/api/meters">>)
OnConcepts ==
    /\ Served
    /\ ~StartsWith(request.route, <<"/api/meters">>)
    /\ StartsWith(request.route, <<"/api/concepts">>)
\* The timestamp parameter is missing: not given, or given empty.
TimestampMissing == request.timestamp \in {{}, {<<>>}}
NotFoundResponse == JsonResponse(404, ErrorBody("No data found for timestamp"))

\* C21: on the concepts route, when nothing fails, a timestamp with no
\* stored entry is answered 404 with the not-found error and never with a
\* mapping; a missing timestamp parameter is answered 400 and the store is
\* not read; a timestamp with a stored entry is answered 200 with the
\* stored mapping.
C21_ConceptsEndpoint ==
    (OnConcepts /\ request.fault = "none") =>
        /\ TimestampMissing =>
              /\ responded = JsonResponse(400, ErrorBody("Missing timestamp parameter"))
              /\ storeReads = 0
        /\ \A ts \in request.timestamp :
              (ts # <<>> /\ ts \notin DOMAIN kv) =>
                  /\ responded = NotFoundResponse
                  /\ responded.body.kind # "concepts"
                  /\ storeReads = 1
        /\ \A ts \in request.timestamp :
              ts \in DOMAIN kv =>
                  /\ responded.status = 200
                  /\ responded.body.kind = "concepts"
                  /\ responded.body.value = kv[ts].value
                  /\ {JsonParse(responded.body.value)} = ConceptsRead(kv, ts)

\* A timestamp with no stored entry has been asked for, against a store
\* that holds other entries.
C21_Witness ==
    /\ OnConcepts /\ request.fault = "none"
    /\ \E ts \in request.timestamp : ts # <<>> /\ ts \notin DOMAIN kv
    /\ DOMAIN kv # {}
    /\ responded.status = 404

\* C22: every response of the fetch handler carries
\* Access-Control-Allow-Origin: *.
C22_EveryResponseAllowsAnyOrigin == Served => responded.cors

\* C23: a store operation or a decoding that fails while the meters or the
\* concepts route is served is answered 500 "Uncaught exception", never
\* with a success status or with data.
OperationFailed ==
    \/ /\ request.fault = "store"
       /\ OnMeters \/ (OnConcepts /\ ~TimestampMissing)
    \/ /\ request.fault = "decode"
       /\ OnConcepts
       /\ \E ts \in request.timestamp : ts \in DOMAIN kv

C23_FailureIs500 ==
    OperationFailed =>
        /\ responded = JsonResponse(500, ErrorBody("Uncaught exception"))
        /\ responded.body.kind \notin {"meters", "concepts"}

\* A stored value that could not be decoded has been answered 500.
C23_Witness ==
    /\ request.fault = "decode"
    /\ OperationFailed
    /\ responded.status = 500

(***************************************************************************)
(* The order of a run: C24.                                                *)
(***************************************************************************)
\* Where a run stands, as far as the order of its steps goes: nothing is
\* issued while collecting; the calls are those of the buffer as it was
\* when collection stopped; nothing is reduced before every call has
\* completed; the timestamp is the clock's reading at the reduction.
RunInOrder ==
    /\ ppc = "collecting" =>
          calls = <<>> /\ requestLog = <<>> /\ tally = InitialAcc /\ returned = {}
    /\ ppc \in {"awaiting", "done", "rejected"} =>
          /\ isClosed /\ resolveCount >= 1
          /\ Len(calls) = Len(collectedPosts)
          /\ \A i \in DOMAIN calls : calls[i].text = collectedPosts[i]
    /\ ppc \in {"awaiting", "rejected"} => tally = InitialAcc /\ returned = {}
    /\ ppc = "done" =>
          /\ \A i \in DOMAIN calls : calls[i].status = "fulfilled"
          /\ \A d \in returned : d.timestamp = ToISOString(now)

\* The steps of a run: the buffer no longer changes once a call has been
\* issued, and the sums, the concept table and the result change only in
\* a step that starts with every call completed.
RunStepInOrder ==
    /\ ppc # "collecting" => collectedPosts' = collectedPosts
    /\ (tally' # tally \/ returned' # returned) =>
          /\ ppc = "awaiting"
          /\ \A i \in DOMAIN calls : calls[i].status = "fulfilled"

\* C24: collection has stopped before the first classification call is
\* issued, every call has completed before any outcome is reduced, and the
\* summary's timestamp is the time after the reduction, not the time at
\* which collection started.
C24_CollectThenClassifyThenReduce == []RunInOrder /\ [][RunStepInOrder]_vars

\* A run of two posts or more has returned a summary after the clock moved
\* on from the start of collection.
C24_Witness ==
    /\ ppc = "done"
    /\ Len(calls) >= 2
    /\ now = 1
    /\ \E d \in returned : d.timestamp = ToISOString(1) /\ d.timestamp # ToISOString(0)

(***************************************************************************)
(* Termination of a run: C25.                                              *)
(***************************************************************************)
\* updateMeters has returned a summary or null, or has rejected.
RunEnded == ppc \in {"done", "rejected", "finished"}

\* C25: every invocation of updateMeters eventually terminates, with a
\* summary or with none, provided each classification call returns.
C25_RunTerminates == <>RunEnded

(***************************************************************************)
(* generateHourPrefixes: C26.                                              *)
(***************************************************************************)
\* The hour an instant lies in, and the prefix of that hour.
HourOf(t) == t \div TicksPerHour
HourPrefix(h) == Substring0(ToISOString(h * TicksPerHour), 13)
\* The instant rounded up to the hour.
CeilHour(t) == IF t % TicksPerHour = 0 THEN t ELSE (HourOf(t) + 1) * TicksPerHour
\* The prefixes of the hours from..to, in ascending order.
HoursFromTo(from, to) ==
    [i \in 1..(IF to >= from THEN to - from + 1 ELSE 0) |-> HourPrefix(from + i - 1)]

StrictlyAscending(seq) ==
    \A i \in 1..(Len(seq) - 1) : StrCompare(seq[i], seq[i + 1]) < 0

PrefixIndexAt(i) == 1 + Cardinality({j \in 1..(i - 1) : listLog[j].complete})

PagingInOrder ==
    /\ \A i \in DOMAIN listLog :
          /\ PrefixIndexAt(i) <= Len(prefixes)
          /\ listLog[i].prefix = prefixes[PrefixIndexAt(i)]
          /\ IF i > 1 /\ ~listLog[i - 1].complete
             THEN /\ listLog[i].prefix = listLog[i - 1].prefix
                  /\ listLog[i].cursor = listLog[i - 1].returned
                  /\ listLog[i].cursor # NoCursor
             ELSE listLog[i].cursor = NoCursor
    /\ qpc = "done" =>
          Cardinality({j \in DOMAIN listLog : listLog[j].complete}) = Len(prefixes)
    /\ qpc = "listing" =>
          Cardinality({j \in DOMAIN listLog : listLog[j].complete}) < Len(prefixes)

\* Every key of every page has gone through the filter: those in range
\* are among the results.
EveryKeyExamined ==
    \A i \in DOMAIN listLog : \A j \in DOMAIN listLog[i].keys :
        (StrGeq(listLog[i].keys[j], startIso) /\ StrLeq(listLog[i].keys[j], endIso))
            => \E r \in DOMAIN results : results[r].timestamp = listLog[i].keys[j]

\* The keys of the store under a prefix that lie beyond a cursor.
KeysLeft(prefix, cur) ==
    Cardinality({k \in DOMAIN kv :
                    StartsWith(k, prefix) /\ (cur = NoCursor \/ StrCompare(k, cur) > 0)})

RECURSIVE WorkLeft(_, _)
\* What a scan standing at prefix i with cursor cur has before it: for
\* each prefix left, its keys still to be listed and its last page.
WorkLeft(i, cur) ==
    IF i > Len(prefixes) THEN 0
    ELSE 1 + KeysLeft(prefixes[i], cur) + WorkLeft(i + 1, NoCursor)

ScanWorkLeft == IF qpc = "listing" THEN WorkLeft(prefixIdx, cursor) ELSE 0

\* Each list request answered leaves the scan with less before it, as
\* long as the store reports on the same keys.
ScanAdvances ==
    (qpc = "listing" /\ listLog' # listLog /\ kv' = kv) =>
        /\ ScanWorkLeft' < ScanWorkLeft
        /\ (ScanWorkLeft' = 0) = (qpc' = "done")

\* C27: for each prefix the first list request carries no cursor, every
\* later one the cursor the page before it returned, the requests for the
\* prefix stop exactly at the page that reports the listing complete, every
\* key of every page is examined, and the scan comes to its end: every
\* request leaves strictly less to list, and with nothing left it is done.
C27_PagingFollowsCursor ==
    /\ [](PagingInOrder /\ EveryKeyExamined)
    /\ [][ScanAdvances]_vars

\* A finished scan of two prefixes or more in which a prefix took a second
\* page, requested with the cursor the first returned.
C27_Witness ==
    /\ qpc = "done"
    /\ Len(prefixes) >= 2
    /\ \E i \in DOMAIN listLog :
          /\ i > 1
          /\ ~listLog[i - 1].complete
          /\ listLog[i].cursor = listLog[i - 1].returned
          /\ listLog[i].complete
          /\ listLog[i].keys # <<>>

(***************************************************************************)
(* The three counters of a run: C28.                                       *)
(***************************************************************************)
IsNoSentiment(r) == "error" \in DOMAIN r /\ r.error = <<"NO SENTIMENT">>
IsOtherFailure(r) ==
    /\ "error" \in DOMAIN r
    /\ "pending" \notin DOMAIN r
    /\ r.error # <<"NO SENTIMENT">>
SuccessCount == Cardinality({i \in DOMAIN calls : IsSuccess(calls[i].result)})
NoSentimentOutcomes == Cardinality({i \in DOMAIN calls : IsNoSentiment(calls[i].result)})
OtherFailures == Cardinality({i \in DOMAIN calls : IsOtherFailure(calls[i].result)})

\* C28: after the reduction messageCount, noSentimentCount and failureCount
\* are the numbers of Success, NO SENTIMENT and other-failure outcomes;
\* every outcome is of exactly one of the three kinds, so the three add up
\* to the number of buffered messages.
C28_CountersPartitionBatch ==
    ppc = "done" =>
        /\ tally.messageCount = SuccessCount
        /\ tally.noSentimentCount = NoSentimentOutcomes
        /\ tally.failureCount = OtherFailures
        /\ \A i \in DOMAIN calls :
              Cardinality({k \in 1..3 :
                  <<IsSuccess(calls[i].result), IsNoSentiment(calls[i].result),
                    IsOtherFailure(calls[i].result)>>[k]}) = 1
        /\ tally.messageCount + tally.noSentimentCount + tally.failureCount
              = Len(collectedPosts)

\* A finished run of three posts, one outcome of each kind.
C28_Witness ==
    /\ ppc = "done"
    /\ Len(collectedPosts) = 3
    /\ tally.messageCount = 1
    /\ tally.noSentimentCount = 1
    /\ tally.failureCount = 1

(***************************************************************************)
(* After connectToFirehose has resolved: C29.                              *)
(***************************************************************************)
\* C29: once connectToFirehose has resolved, by whatever cause, onPost is
\* not invoked again, even if events are still delivered.
C29_NoPostAfterResolve == [][resolveCount >= 1 => onPostCalls' = onPostCalls]_vars

(***************************************************************************)
(* The caller's Dates: C30.                                                *)
(***************************************************************************)
\* C30: getHistoricalMeters and generateHourPrefixes leave the caller's
\* start and end Dates as they were, and the keys are filtered by the
\* original instants, not by the rounded ones.
C30_ArgumentsUnchanged ==
    qpc # "idle" =>
        /\ qStart = qArgs.start
        /\ qEnd = qArgs.end
        /\ startIso = ToISOString(qArgs.start)
        /\ endIso = ToISOString(qArgs.end)

(***************************************************************************)
(* The word cloud after hovering: C31.                                     *)
(***************************************************************************)
\* No timer is pending and no request is under way.
UiSettled ==
    /\ conceptFetchTimeout = 0
    /\ \A i \in DOMAIN conceptRequests : conceptRequests[i].status # "pending"

\* The words of the concepts stored for a timestamp.
StoredWords(timestamp) == WordsOf(JsonParse(kv[timestamp].value))

\* C31: once every timer has fired and every concept request has completed
\* (here: each with an ok answer), in whatever order, the word cloud shows
\* the concepts of the timestamp hovered last; and a hover followed by
\* another within the debounce window issues no request.
C31_CloudShowsLastHover ==
    /\ (/\ UiSettled
        /\ hoverLog # <<>>
        /\ \A i \in DOMAIN conceptRequests : conceptRequests[i].status = "ok")
          => wordCloudData = StoredWords(hoverLog[Len(hoverLog)].timestamp)
    /\ \A k \in DOMAIN hoverLog :
          hoverLog[k].superseded =>
              \A i \in DOMAIN conceptRequests : conceptRequests[i].hover # k

====
